---------------------------- MODULE Spec2Model ----------------------------
(***************************************************************************)
(* Model of the job_hunt_beta resume generator: the Job/Resume store       *)
(* (resume_generator/models.py, repositories/job_repositories.py), the     *)
(* spreadsheet and document adapter (services/external/                   *)
(* google_drive_service.py) and the reconciliation engine                  *)
(* (services/google_drive_monitor_service.py).                             *)
(*                                                                         *)
(* Texts are modelled by classes: a text is one of a few named strings,    *)
(* and every predicate the code evaluates on a text (length tests,         *)
(* substring tests, strip, lower) is a table over those classes.           *)
(***************************************************************************)
EXTENDS Integers, Sequences, FiniteSets, TLC

\* ------------------------------------------------------------------ bounds
\* Data rows of the sheet.
MaxRows == 2
\* Reconciliation cycles (calls of process_drive_excel) in one behaviour.
MaxCycles == 2
\* UserResume rows created in one behaviour of the upload specifications.
MaxResumes == 3
\* Adapter calls that fail (a scrape, a generation, a raised exception, an
\* unreadable sheet) in one behaviour.
MaxFaults == 1

\* monitor_loop is followed for this many iterations of its while loop.
MaxIterations == 2

\* Rows in the list given to one call of sync_excel_data.
MaxSyncRows == 2

\* ------------------------------------------------------------------ texts
\* An empty spreadsheet cell, as pandas reads it (pd.isna is true of it).
NaN == "<NaN>"

\* str.strip() on the cell texts of the model.
Strip(s) ==
  CASE s = " " -> ""
    [] s = " u1 " -> "u1"
    [] s = " nan " -> "nan"
    [] s = " ID1 " -> "ID1"
    [] OTHER -> s

\* str.lower() on the cell texts of the model.
Lower(s) ==
  CASE s = "YES" -> "yes"
    [] s = "Yes" -> "yes"
    [] s = "No" -> "no"
    [] s = "TRUE" -> "true"
    [] s = NaN -> "nan"
    [] OTHER -> s

\* str(x).lower() of a Python bool: "true" or "false".
PyStrLowerBool(b) == IF b THEN "true" ELSE "false"

\* The texts JobScraperService.extract_job_description returns: a page text
\* of 100 characters or more ("good") or one of its failure messages.
\*   unable : "Unable to extract sufficient job description content ..."
\*   blocked: "Website blocked the request (403 Forbidden). ..."
\*   httperr: "HTTP Error <code>: Unable to access job posting. ..."
\*   timeout: "Request timed out. Please paste the job description ..."
ScrapeResults == {"good", "unable", "httperr", "timeout"}

\* The failure messages of extract_job_description (resume_service.py:61-75).
ScrapeFailures == {"unable", "blocked", "httperr", "timeout"}

\* A job_description the engine builds itself:
\*   promoted: "Job Description (from user input):\n\n" + additional_instructions

\* additional_instructions texts: empty, a short note ("note"), a pasted
\* description of more than 100 characters ("pasted").

\* len(additional_instructions) > 100
LongInstructions(a) == a = "pasted"

\* google_drive_monitor_service.py:224-225: the scrape is taken as failed.
\* (The timeout message is 109 characters long and holds none of the markers.)
ScrapeLooksFailed(d) == d \in {"unable", "blocked", "httperr"}

\* google_drive_monitor_service.py:235: len < 50 or "Error" in the first 100
\* characters.  Of the scraper's messages only "HTTP Error ..." is caught.
DescriptionRejected(d) == d \in {"", "httperr"}

\* ------------------------------------------------------------------ state
VARIABLES
  resumes,        \* UserResume table: sequence of [is_active, content], id = index
  jobs,           \* JobApplication table, id = index
  genResumes,     \* GeneratedResume table (append-only), in creation order
  genCovers,      \* GeneratedCoverLetter table (append-only), in creation order
  config,         \* the GoogleDriveConfig row
  sheet,          \* the spreadsheet in Drive: sequence of data rows
  docs,           \* the Google Docs created so far, id = index
  upc,            \* upload_resume requests: position of each ("idle", "insert",
                  \* "content") and the id of the resume it created (0: none yet)
  pc,             \* process_drive_excel: "idle" or "rows"
  job_apps_data,  \* process_drive_excel: the rows read at the start of the cycle
  cursor,         \* process_drive_excel: position of the for loop
  active_resume,  \* process_drive_excel: id of the active resume (0: None)
  force_reprocess,\* process_drive_excel: its argument
  counts,         \* process_drive_excel: processed, skipped, errors
  last_result,    \* what the last call of process_drive_excel returned
  cycles,         \* calls of process_drive_excel so far
  genCalls,       \* log of the Generation Adapter: successful returns per job and kind
  row_log,        \* process_drive_excel: what happened to each row of the
                  \* running call so far (see RowLog)
  wlog,           \* the last direct call of update_excel_in_drive (see WriteRow)
  mon,            \* monitor_loop and the GoogleDriveConfig rows it lists
  man,            \* a second, concurrent call of process_drive_excel (the
                  \* manual trigger process_drive_now)
  single,         \* one call of _process_single_job on its own: the job it was
                  \* given and what it did (see SingleJob)
  sync,           \* ExcelSyncService: the cache file, the rows given to
                  \* sync_excel_data and what the call returned
  hist            \* observations across cycles: the flags and artifact counts at
                  \* the end of the previous call and whether it ran without
                  \* failure (prev_*), whether the sheet was edited since
                  \* (~prev_valid), whether any call was forced, and the
                  \* adapter failures so far (faults)

vars == <<resumes, jobs, genResumes, genCovers, config, sheet, docs, upc, pc,
          job_apps_data, cursor, active_resume, force_reprocess, counts,
          last_result, cycles, genCalls, row_log, wlog, mon, man, single,
          sync, hist>>

storeVars == <<jobs, genResumes, genCovers, docs, genCalls>>
cycleVars == <<pc, job_apps_data, cursor, active_resume, force_reprocess,
               counts, last_result, cycles, row_log, hist>>
otherVars == <<wlog, mon, man, single, sync>>

Uploaders == {"a", "b"}

\* ------------------------------------------------------- UserResume store
\* UserResume.objects.filter(is_active=True).update(is_active=False)
DeactivateAllNone(rs) == rs
DeactivateAll(rs) == [i \in 1..Len(rs) |-> [rs[i] EXCEPT !.is_active = FALSE]]

\* UserResume.objects.create(..., content=content, is_active=True)
InsertActive(rs, content) == Append(rs, [is_active |-> TRUE, content |-> content])

ActiveIds(rs) == {i \in 1..Len(rs) : rs[i].is_active}

\* A lookup that does not filter on is_active: the most recent upload.
get_active_resume_any(rs) == Len(rs)

\* UserResumeRepository.get_active_resume: filter(is_active=True).first(), under
\* Meta.ordering = ['-uploaded_at']: the most recently uploaded active resume.
get_active_resume(rs) ==
  IF ActiveIds(rs) = {} THEN 0
  ELSE CHOOSE i \in ActiveIds(rs) : \A k \in ActiveIds(rs) : k <= i


\* views.upload_resume, first statement of UserResumeRepository.create: the
\* UPDATE that deactivates every active resume (its own transaction: the
\* repository opens none, and Django runs in autocommit).
UploadDeactivate(u) ==
  /\ upc[u].at = "idle"
  /\ Len(resumes) + Cardinality({v \in Uploaders : upc[v].at = "insert"}) < MaxResumes
  /\ resumes' = DeactivateAll(resumes)
  /\ upc' = [upc EXCEPT ![u] = [at |-> "insert", id |-> 0]]
  /\ UNCHANGED <<storeVars, config, sheet, cycleVars, otherVars>>

\* views.upload_resume, second statement of UserResumeRepository.create: the
\* INSERT of the new resume, active, with empty content (views.py:50-53 passes
\* no content).
UploadInsert(u) ==
  /\ upc[u].at = "insert"
  /\ resumes' = InsertActive(resumes, "")
  /\ upc' = [upc EXCEPT ![u] = [at |-> "content", id |-> Len(resumes) + 1]]
  /\ UNCHANGED <<storeVars, config, sheet, cycleVars, otherVars>>

\* views.upload_resume, UserResumeRepository.update_content(user_resume.id,
\* content): the extracted text is stored on the resume just created.
UploadContent(u) ==
  /\ upc[u].at = "content"
  /\ resumes' = [resumes EXCEPT ![upc[u].id].content = "cv"]
  /\ upc' = [upc EXCEPT ![u] = [at |-> "idle", id |-> 0]]
  /\ UNCHANGED <<storeVars, config, sheet, cycleVars, otherVars>>

\* ------------------------------------------------------------ spreadsheet
\* update_excel_in_drive's optional arguments: None ("no change") or a value.
None == <<>>
Some(v) == <<v>>

SheetRow(url, desc, instr, gr, gc, gn, rg, cg) ==
  [unique_id |-> NaN, job_url |-> url, job_description |-> desc,
   additional_instructions |-> instr, generate_resume |-> gr,
   generate_cover |-> gc, generate_new_resume |-> gn,
   resume_generated |-> rg, cover_letter_generated |-> cg,
   recommendations |-> NaN, company_name |-> NaN, google_doc_url |-> NaN]

\* read_excel_from_drive:115-116: the trimmed text of a cell, '' for an empty one.
CellText(c) == IF c = NaN THEN "" ELSE Strip(c)

\* read_excel_from_drive:126-130: a boolean-like cell.
ParseBool(c) == Lower(c) \in {"yes", "true", "1", "y"}

\* read_excel_from_drive:118: the row is skipped.
RowExcludedOr(r) == CellText(r.job_url) = "" \/ CellText(r.job_description) = ""
RowExcluded(r) == CellText(r.job_url) = "" /\ CellText(r.job_description) = ""

\* read_excel_from_drive:132: 'excel_row_index': int(idx) + 2, idx the label
\* iterrows gives the row: its zero-based position among all the data rows.
ExcelRowIndexOneBased(idx) == idx + 1
ExcelRowIndex(idx) == idx + 2

\* read_excel_from_drive:121-133: the dictionary built for the row at
\* zero-based position idx = i - 1.
JobData(r, i) ==
  [unique_id |-> IF r.unique_id # NaN /\ Strip(r.unique_id) # "" THEN r.unique_id ELSE "",
   job_url |-> CellText(r.job_url),
   job_description |-> CellText(r.job_description),
   additional_instructions |->
     IF r.additional_instructions = NaN THEN "" ELSE r.additional_instructions,
   generate_resume |-> ParseBool(r.generate_resume),
   generate_cover_letter |-> ParseBool(r.generate_cover),
   generate_new_resume |-> ParseBool(r.generate_new_resume),
   resume_generated |-> ParseBool(r.resume_generated),
   cover_letter_generated |-> ParseBool(r.cover_letter_generated),
   company_name |-> IF r.company_name = NaN THEN "" ELSE r.company_name,
   excel_row_index |-> ExcelRowIndex(i - 1)]

RECURSIVE ReadFrom(_, _)
ReadFrom(s, i) ==
  IF i > Len(s) THEN <<>>
  ELSE IF RowExcluded(s[i]) THEN ReadFrom(s, i + 1)
  ELSE <<JobData(s[i], i)>> \o ReadFrom(s, i + 1)

\* GoogleDriveService.read_excel_from_drive: the list of job dictionaries.
read_excel_from_drive(s) == ReadFrom(s, 1)

YesNo(b) == IF b THEN "yes" ELSE "no"

\* update_excel_in_drive:217-234: the row at row_index with the given fields
\* set; an argument that is None leaves its cell as it is.
UpdatedRow(r, rg, cg, recs, company, url) ==
  [r EXCEPT !.resume_generated = IF rg = None THEN @ ELSE YesNo(rg[1]),
            !.cover_letter_generated = IF cg = None THEN @ ELSE YesNo(cg[1]),
            !.recommendations = IF recs = None THEN @ ELSE recs[1],
            !.company_name = IF company = None THEN @ ELSE company[1],
            !.google_doc_url = IF url = None THEN @ ELSE url[1]]

\* update_excel_in_drive:220: df_index < 0 or df_index >= len(df).
InvalidRowIndexBelow(s, row_index) == row_index - 2 < 0
InvalidRowIndex(s, row_index) == row_index - 2 < 0 \/ row_index - 2 >= Len(s)

\* update_excel_in_drive:190, 205, 210, 215: astype(str).replace('nan', '') on
\* a cell: an empty cell becomes the empty text.
AsStrBlank(c) == IF c \in {NaN, "nan"} THEN "" ELSE c

\* update_excel_in_drive:195, 200: astype(str) alone on a cell: an empty cell
\* becomes the text "nan".
AsStr(c) == IF c = NaN THEN "nan" ELSE c

\* update_excel_in_drive:186-215: the conversions applied to every row of the
\* downloaded table before the target row is changed.
ConvertedRow(r) ==
  [r EXCEPT !.unique_id = AsStrBlank(@),
            !.resume_generated = AsStr(@),
            !.cover_letter_generated = AsStr(@),
            !.recommendations = AsStrBlank(@),
            !.company_name = AsStrBlank(@),
            !.google_doc_url = AsStrBlank(@)]

\* GoogleDriveService.update_excel_in_drive: download, convert the columns,
\* change the row, upload the whole table.
update_excel_in_drive(s, row_index, rg, cg, recs, company, url) ==
  [i \in 1..Len(s) |->
     IF i = row_index - 1
       THEN UpdatedRow(ConvertedRow(s[i]), rg, cg, recs, company, url)
       ELSE ConvertedRow(s[i])]

\* -------------------------------------------------------------- documents
\* The body of a document is the sequence of the text runs inserted into it,
\* each one index long: run i is at index i, the final newline every body
\* keeps is at Len(body) + 1.
\* Docs API insertText: the text is inserted at the index, what was at the
\* index or after it moves behind the new text.
InsertText(body, index, run) ==
  SubSeq(body, 1, index - 1) \o <<run>> \o SubSeq(body, index, Len(body))

\* Docs API deleteContentRange: the indices startIndex .. endIndex - 1 go.
DeleteContentRange(body, startIndex, endIndex) ==
  SubSeq(body, 1, startIndex - 1) \o SubSeq(body, endIndex, Len(body))

\* documents().batchUpdate: the requests are applied one after the other, in
\* the order of the list.
RECURSIVE BatchUpdate(_, _)
BatchUpdate(body, requests) ==
  IF requests = <<>> THEN body
  ELSE BatchUpdate(
         IF Head(requests).op = "insertText"
           THEN InsertText(body, Head(requests).index, Head(requests).run)
           ELSE DeleteContentRange(body, Head(requests).index, Head(requests).endIndex),
         Tail(requests))

\* One request of the batch.  endIndex is read for deleteContentRange only.
InsertTextRequest(index, kind, text) ==
  [op |-> "insertText", index |-> index, endIndex |-> index,
   run |-> [kind |-> kind, text |-> text]]
DeleteRequest(startIndex, endIndex) ==
  [op |-> "deleteContentRange", index |-> startIndex, endIndex |-> endIndex,
   run |-> [kind |-> "", text |-> ""]]

\* create_google_doc:283-309 and update_google_doc:371-395: the three
\* insertText requests, in the order they are appended to the list, each at
\* index 1.
SectionRequests(resume_text, cover_text) ==
  << InsertTextRequest(1, "cover", cover_text),
     InsertTextRequest(1, "break", ""),
     InsertTextRequest(1, "resume", resume_text) >>

\* update_google_doc:352-368: endIndex of the last element of the body, and
\* the request that deletes 1 .. end_index - 1 if there is anything to delete.
ClearRequests(body) ==
  LET end_index == Len(body) + 2
  IN IF end_index > 2 THEN << DeleteRequest(1, end_index - 1) >> ELSE <<>>

\* create_google_doc: a new, empty document and one batch on it; its id is
\* its position in docs.  job records for which JobApplication it was created.
create_google_doc(ds, job, resume_text, cover_text) ==
  Append(ds, [job |-> job, cover |-> cover_text, resume |-> resume_text,
              body |-> BatchUpdate(<<>>, SectionRequests(resume_text, cover_text))])

\* update_google_doc: one batch on document doc_id, the deletion of the body
\* first.
update_google_doc(ds, doc_id, resume_text, cover_text) ==
  [ds EXCEPT ![doc_id] =
     [@ EXCEPT !.cover = cover_text, !.resume = resume_text,
               !.body = BatchUpdate(@, ClearRequests(@)
                                       \o SectionRequests(resume_text, cover_text))]]

\* doc_url = f"https://docs.google.com/document/d/{doc_id}/edit"
DocUrl(doc_id) == ToString(doc_id)

\* extract_company_name(job_description, job_url): first the URL patterns,
\* then the description patterns, then "Company".  u1 stands for a URL the
\* patterns match (linkedin.com/company/acme-corp), u2 for one they do not.
extract_company_name(desc, url) == IF url = "u1" THEN "Acme Corp" ELSE "Company"

\* ------------------------------------------------------ JobApplication store
\* JobApplication.objects.filter(job_url=..., user_resume=active_resume).first()
\* under Meta.ordering = ['-created_at']: the latest created match, 0 for None.
FindJob(js, url, resume) ==
  LET m == {j \in 1..Len(js) : js[j].job_url = url /\ js[j].user_resume = resume}
  IN IF m = {} THEN 0 ELSE CHOOSE j \in m : \A k \in m : k <= j

\* models.py:73, unique_id = CharField(unique=True, blank=True): an INSERT whose
\* unique_id is already in the table raises IntegrityError ('' included: the
\* column is not nullable, and two empty strings are equal).
UniqueViolation(js, uid) == \E j \in 1..Len(js) : js[j].unique_id = uid

\* process_drive_excel:151-162 with JobApplicationRepository.create:58-77: the
\* row inserted.  unique_id and job_description are not passed and take the
\* repository's defaults ''.
NewJob(job_data, should_gen_resume, should_gen_cover, resume_done, cover_done, resume) ==
  [unique_id |-> "",
   job_url |-> job_data.job_url,
   job_description |-> "",
   additional_instructions |-> job_data.additional_instructions,
   generate_resume |-> should_gen_resume,
   generate_cover_letter |-> should_gen_cover,
   generate_new_resume |-> job_data.generate_new_resume,
   resume_generated |-> resume_done,
   cover_letter_generated |-> cover_done,
   excel_row_index |-> job_data.excel_row_index,
   company_name |-> job_data.company_name,
   user_resume |-> resume,
   status |-> "pending"]

\* process_drive_excel:164-169: the matched job updated from the sheet.
UpdatedJob(job, job_data, should_gen_resume, should_gen_cover) ==
  [job EXCEPT !.generate_resume = should_gen_resume,
              !.generate_cover_letter = should_gen_cover,
              !.additional_instructions = job_data.additional_instructions,
              !.excel_row_index = job_data.excel_row_index]

\* GeneratedResumeRepository.get_by_job_application and its cover letter twin:
\* filter(job_application_id=id).order_by('-created_at').first(), 0 for None.
LatestFor(rows, id) ==
  LET m == {k \in 1..Len(rows) : rows[k].job = id}
  IN IF m = {} THEN 0 ELSE CHOOSE k \in m : \A l \in m : l <= k

\* _process_single_job:310-320: the document the job already has, 0 for ''.
ExistingDoc(grs, gcs, id) ==
  LET existing_resume == LatestFor(grs, id)
      existing_cover == LatestFor(gcs, id)
  IN IF existing_resume # 0 /\ grs[existing_resume].google_doc_id # 0
       THEN grs[existing_resume].google_doc_id
     ELSE IF existing_cover # 0 /\ gcs[existing_cover].google_doc_id # 0
       THEN gcs[existing_cover].google_doc_id
     ELSE 0

\* _process_single_job:262, 274: force_reprocess or not job_app.<kind>_generated.
NeedsGenerationAlways(force, done) == TRUE
NeedsGeneration(force, done) == force \/ ~done

\* _process_single_job:371-372: a completion flag after the row.
NewFlagOverwrite(old, generated) == generated
NewFlag(old, generated) == old \/ generated

\* _process_single_job:374-377: the status after the row.
NewStatusPending(old, resume_generated, cover_letter_generated) ==
  IF resume_generated /\ cover_letter_generated THEN "completed"
  ELSE IF resume_generated \/ cover_letter_generated THEN "processing"
  ELSE "pending"
NewStatus(old, resume_generated, cover_letter_generated) ==
  IF resume_generated /\ cover_letter_generated THEN "completed"
  ELSE IF resume_generated \/ cover_letter_generated THEN "processing"
  ELSE old

\* The points of _process_single_job at which an adapter can raise:
\*   recs     gemini_service.generate_content of the recommendations pass (301)
\*   doc      update_google_doc / create_google_doc before anything is written
\*   doc_late create_google_doc after documents().create: the document exists
\*   store    GeneratedResumeRepository.create (353)
\*   sheet    update_excel_in_drive (383)
ExcPoints == {"none", "recs", "doc", "doc_late", "store", "sheet"}

\* The one element of a singleton set.
The(S) == CHOOSE x \in S : TRUE

\* The call _process_single_job(job_app, resume_content, config,
\* force_reprocess) as process_drive_excel:172-177 makes it, with the state it
\* runs on and the adapters' answers:
\*   js, id, job   the JobApplication table, the row's id, the in-memory object
\*   grs, gcs      the GeneratedResume and GeneratedCoverLetter tables
\*   ds, sh        the documents and the sheet
\*   scr           what the scraper returns if asked
\*   cov_ok/res_ok whether the Generation Adapter returns a cover letter / a
\*                 resume if asked
\*   exc           the adapter call that raises, if it is made
Call(js, id, job, grs, gcs, ds, sh, resume_content, cfg, force, scr, cov_ok, res_ok, exc) ==
  [js |-> js, id |-> id, job |-> job, grs |-> grs, gcs |-> gcs, ds |-> ds,
   sh |-> sh, resume_content |-> resume_content, cfg |-> cfg, force |-> force,
   scr |-> scr, cov_ok |-> cov_ok, res_ok |-> res_ok, exc |-> exc]

\* _process_single_job:219-239: description backfill and the rejection test.
\* Line 229 clears additional_instructions on the in-memory object only; 231
\* saves the description alone and 232 (refresh_from_db) reloads every field
\* of the object from its row.
Backfill(c) ==
  LET scraped == c.job.job_description = ""
      promote == /\ ScrapeLooksFailed(c.scr)
                 /\ c.job.additional_instructions # ""
                 /\ LongInstructions(c.job.additional_instructions)
      job_description == IF promote THEN "promoted" ELSE c.scr
  IN IF c.job.job_description = ""
       THEN [scraped |-> TRUE,
             js |-> [c.js EXCEPT ![c.id].job_description = job_description],
             job |-> [c.js[c.id] EXCEPT !.job_description = job_description],
             rejected |-> DescriptionRejected(job_description)]
       ELSE [scraped |-> FALSE, js |-> c.js, job |-> c.job,
             rejected |-> DescriptionRejected(c.job.job_description)]

\* _process_single_job:242-248: company name backfill, saved.
CompanyBackfillAlways(b) ==
  [b.job EXCEPT !.company_name =
     extract_company_name(b.job.job_description, b.job.job_url)]
CompanyBackfill(b) ==
  IF b.job.company_name = ""
    THEN [b.job EXCEPT !.company_name =
            extract_company_name(b.job.job_description, b.job.job_url)]
    ELSE b.job

\* _process_single_job:259: should_generate_cover_letter.
ShouldGenerateCoverBoth(cfg, job) ==
  cfg.always_generate_cover_letter /\ job.generate_cover_letter
ShouldGenerateCover(cfg, job) ==
  cfg.always_generate_cover_letter \/ job.generate_cover_letter

\* _process_single_job:275-304: resume_generated once the resume path was
\* entered: a new resume must have been returned (283-286), the
\* recommendations branch sets it in any case (304).
ResumeGeneratedOnlyNew(generate_new_resume, res_ok) == generate_new_resume /\ res_ok
ResumeGenerated(generate_new_resume, res_ok) == generate_new_resume => res_ok

\* _process_single_job:250-304: gating and the generation calls, on the job
\* as CompanyBackfill left it.
Generate(c, job) ==
  LET should_generate_resume == c.cfg.generate_new_resume /\ job.generate_resume
      should_generate_cover_letter == ShouldGenerateCover(c.cfg, job)
      cover_call == should_generate_cover_letter
                    /\ NeedsGeneration(c.force, job.cover_letter_generated)
      resume_path == should_generate_resume
                     /\ NeedsGeneration(c.force, job.resume_generated)
  IN [job |-> job,
      cover_call |-> cover_call,
      cover_generated |-> cover_call /\ c.cov_ok,
      cover_letter_content |-> IF cover_call /\ c.cov_ok THEN "generated" ELSE "",
      resume_call |-> resume_path /\ job.generate_new_resume,
      recs_call |-> resume_path /\ ~job.generate_new_resume
                    /\ c.cfg.generate_recommendations,
      generated_text |-> IF resume_path /\ job.generate_new_resume /\ c.res_ok
                           THEN "generated" ELSE "",
      recommendations |->
        IF resume_path /\ (IF job.generate_new_resume THEN c.res_ok
                           ELSE c.cfg.generate_recommendations)
          THEN "recs" ELSE "",
      resume_generated |-> resume_path
                           /\ ResumeGenerated(job.generate_new_resume, c.res_ok)]

\* _process_single_job:306-347: the document upsert.
Document(c, g) ==
  LET found_doc == ExistingDoc(c.grs, c.gcs, c.id)
      doc_call == g.generated_text # "" \/ g.cover_letter_content # ""
      resume_content_text ==
        IF doc_call /\ g.generated_text = "" THEN c.resume_content
        ELSE g.generated_text
      raise_recs == g.recs_call /\ c.exc = "recs"
  IN [raise_recs |-> raise_recs,
      doc_call |-> doc_call /\ ~raise_recs,
      raise_doc |-> ~raise_recs /\ doc_call /\ c.exc \in {"doc", "doc_late"},
      resume_content_text |-> resume_content_text,
      docs |-> IF ~doc_call \/ raise_recs THEN c.ds
               ELSE IF found_doc # 0
                 THEN IF c.exc \in {"doc", "doc_late"} THEN c.ds
                      ELSE update_google_doc(c.ds, found_doc, resume_content_text,
                                             g.cover_letter_content)
               ELSE IF c.exc = "doc" THEN c.ds
               ELSE create_google_doc(c.ds, c.id, resume_content_text,
                                      g.cover_letter_content),
      google_doc_id |-> IF doc_call /\ found_doc = 0 THEN Len(c.ds) + 1
                        ELSE found_doc]

\* _process_single_job:349-379: the artifact rows, the flags and the status.
Persist(c, g, d) ==
  LET resume_row == d.resume_content_text # "" \/ g.resume_generated
      rg == NewFlag(g.job.resume_generated, g.resume_generated)
      cg == NewFlag(g.job.cover_letter_generated, g.cover_generated)
  IN [raise_store |-> ~d.raise_recs /\ ~d.raise_doc /\ resume_row
                      /\ c.exc = "store",
      grs |-> IF resume_row
                THEN Append(c.grs, [job |-> c.id,
                                    content |-> IF d.resume_content_text # ""
                                                  THEN d.resume_content_text
                                                  ELSE c.resume_content,
                                    google_doc_id |-> d.google_doc_id])
                ELSE c.grs,
      gcs |-> IF g.cover_generated
                THEN Append(c.gcs, [job |-> c.id, google_doc_id |-> d.google_doc_id])
                ELSE c.gcs,
      job |-> [g.job EXCEPT !.resume_generated = rg,
                            !.cover_letter_generated = cg,
                            !.status = NewStatus(@, rg, cg)]]

\* _process_single_job:388, 390: 'x if x else None', an empty text is passed
\* as None.
AlwaysSome(text) == Some(text)
OrNone(text) == IF text # "" THEN Some(text) ELSE None

\* _process_single_job:381-391: the write-back.  google_doc_url is '' (307)
\* unless a document was found or created.
WriteBack(c, g, d, job) ==
  IF job.excel_row_index # 0
    THEN update_excel_in_drive(c.sh, job.excel_row_index,
           Some(job.resume_generated), Some(job.cover_letter_generated),
           OrNone(g.recommendations),
           Some(job.company_name),
           OrNone(IF d.google_doc_id # 0 THEN DocUrl(d.google_doc_id) ELSE ""))
    ELSE c.sh

\* _process_single_job:395-398: the handler saves the in-memory object with
\* status failed.
FailedNotMarked(job) == job
Failed(job) == [job EXCEPT !.status = "failed"]

\* What the call returns and leaves behind: the tables, documents and sheet,
\* the success flag, the texts the Generation Adapter returned (generated),
\* whether a generation call failed or an adapter raised (adapter_failed), and
\* the adapter calls that were made (asked: the scrape, the three generation
\* calls, the document call, and the call that raised).
Outcome(c, b, g, d, p) ==
  LET raise_sheet == /\ ~d.raise_recs /\ ~d.raise_doc /\ ~p.raise_store
                     /\ p.job.excel_row_index # 0
                     /\ (c.exc = "sheet" \/ InvalidRowIndex(c.sh, p.job.excel_row_index))
      gen == [cover |-> g.cover_generated, resume |-> g.resume_call /\ c.res_ok]
      asked == [scrape |-> b.scraped, cover |-> g.cover_call,
                resume |-> g.resume_call, recs |-> g.recs_call,
                doc |-> d.doc_call,
                raised |-> IF d.raise_recs THEN "recs"
                           ELSE IF d.raise_doc THEN c.exc
                           ELSE IF p.raise_store THEN "store"
                           ELSE IF raise_sheet /\ c.exc = "sheet" THEN "sheet"
                           ELSE "none"]
  IN CASE d.raise_recs \/ d.raise_doc \/ p.raise_store ->
            [jobs |-> [b.js EXCEPT ![c.id] = Failed(g.job)], genResumes |-> c.grs,
             genCovers |-> c.gcs, docs |-> d.docs, sheet |-> c.sh,
             success |-> FALSE, generated |-> gen, adapter_failed |-> TRUE,
             asked |-> asked]
       [] ~(d.raise_recs \/ d.raise_doc \/ p.raise_store) /\ raise_sheet ->
            [jobs |-> [b.js EXCEPT ![c.id] = Failed(p.job)], genResumes |-> p.grs,
             genCovers |-> p.gcs, docs |-> d.docs, sheet |-> c.sh,
             success |-> FALSE, generated |-> gen, adapter_failed |-> TRUE,
             asked |-> asked]
       [] OTHER ->
            [jobs |-> [b.js EXCEPT ![c.id] = p.job], genResumes |-> p.grs,
             genCovers |-> p.gcs, docs |-> d.docs,
             sheet |-> WriteBack(c, g, d, p.job), success |-> TRUE,
             generated |-> gen,
             adapter_failed |-> (g.cover_call /\ ~c.cov_ok)
                                \/ (g.resume_call /\ ~c.res_ok),
             asked |-> asked]

\* _process_single_job:235-239: the description is rejected; the call returns
\* a failure and nothing else is written.
Rejected(c, b) ==
  [jobs |-> b.js, genResumes |-> c.grs, genCovers |-> c.gcs, docs |-> c.ds,
   sheet |-> c.sh, success |-> FALSE,
   generated |-> [cover |-> FALSE, resume |-> FALSE], adapter_failed |-> FALSE,
   asked |-> [scrape |-> b.scraped, cover |-> FALSE, resume |-> FALSE,
              recs |-> FALSE, doc |-> FALSE, raised |-> "none"]]

\* _process_single_job:241-398, once the description is accepted.
Accepted(c, b) ==
  The({ The({ The({ The({ Outcome(c, b, g, d, p)
                          : p \in {Persist(c, g, d)} })
                    : d \in {Document(c, g)} })
              : g \in {Generate(c, job)} })
        : job \in {CompanyBackfill(b)} })

\* GoogleDriveMonitorService._process_single_job on the call c.
process_single_job(c) ==
  The({ IF b.rejected THEN Rejected(c, b) ELSE Accepted(c, b) : b \in {Backfill(c)} })

\* ------------------------------------------------------------ the cycle
\* The completion flags of every JobApplication, by id.
Flags(js) == [j \in 1..Len(js) |-> <<js[j].resume_generated, js[j].cover_letter_generated>>]

\* process_drive_excel:129-130: the sheet's completion cells as the loop reads
\* them.  job_data holds the booleans read_excel_from_drive parsed; str() of a
\* bool, lower-cased, is "true" or "false".
DoneInSheet(b) == PyStrLowerBool(b) = "yes"

\* process_drive_excel:137-138: the generation intents as the loop reads them.
ShouldGen(b) == PyStrLowerBool(b) \in {"yes", "true", "1"}

\* What a finished or refused call of process_drive_excel leaves for the next
\* one to be compared with: the flags and the artifact counts at its end, and
\* whether a generation call failed or an adapter raised during it.
EndOfCall(h, clean) ==
  [h EXCEPT !.prev_valid = TRUE, !.prev_clean = clean,
            !.prev_flags = Flags(jobs),
            !.prev_rows = <<Len(genResumes), Len(genCovers)>>]

\* process_drive_excel:201-202: an exception raised anywhere in the call is
\* caught and returned as a failure.
Escapes(e) == [raised |-> e]
Caught(e) == [success |-> FALSE, error |-> e]

\* process_drive_excel:109 called with a config_id no GoogleDriveConfig has:
\* objects.get raises DoesNotExist, which 201-202 returns; nothing is read
\* or written.
CycleUnknownConfig ==
  /\ pc = "idle"
  /\ cycles < MaxCycles
  /\ hist.faults < MaxFaults
  /\ cycles' = cycles + 1
  /\ last_result' = Caught("DoesNotExist")
  /\ hist' = [hist EXCEPT !.faults = @ + 1]
  /\ UNCHANGED <<resumes, storeVars, config, sheet, upc, pc, job_apps_data,
                 cursor, active_resume, force_reprocess, counts, row_log,
                 otherVars>>

\* process_drive_excel:108-120: the call starts: the sheet is read and the
\* active resume looked up.  read_ok: whether read_excel_from_drive returns
\* (otherwise it raises and the call returns a failure).
CycleStart(force, read_ok) ==
  /\ pc = "idle"
  /\ cycles < MaxCycles
  /\ read_ok \/ hist.faults < MaxFaults
  /\ cycles' = cycles + 1
  /\ IF ~read_ok
       THEN /\ last_result' = Caught("read")
            /\ hist' = [EndOfCall(hist, FALSE) EXCEPT !.faults = @ + 1,
                                                      !.ever_forced = @ \/ force]
            /\ UNCHANGED <<pc, job_apps_data, cursor, active_resume, counts,
                           force_reprocess>>
       ELSE IF get_active_resume(resumes) = 0
         THEN /\ last_result' = [success |-> FALSE, error |-> "No active resume found"]
              /\ hist' = [EndOfCall(hist, TRUE) EXCEPT !.ever_forced = @ \/ force]
              /\ UNCHANGED <<pc, job_apps_data, cursor, active_resume, counts,
                             force_reprocess>>
         ELSE /\ pc' = "rows"
              /\ force_reprocess' = force
              /\ job_apps_data' = read_excel_from_drive(sheet)
              /\ active_resume' = get_active_resume(resumes)
              /\ cursor' = 1
              /\ counts' = [processed |-> 0, skipped |-> 0, errors |-> 0]
              /\ hist' = [hist EXCEPT !.cur_clean = TRUE, !.ever_forced = @ \/ force]
              /\ UNCHANGED last_result
  /\ row_log' = <<>>
  /\ UNCHANGED <<resumes, storeVars, config, sheet, upc, otherVars>>

\* The adapters' answers to one row: an answer other than the good one is
\* given only to a call that is made, and counts as a fault.
Faults(scr, cov_ok, res_ok, exc) ==
  (IF scr = "good" THEN 0 ELSE 1) + (IF cov_ok THEN 0 ELSE 1)
  + (IF res_ok THEN 0 ELSE 1) + (IF exc = "none" THEN 0 ELSE 1)

AnswersUsed(asked, scr, cov_ok, res_ok, exc) ==
  /\ scr # "good" => asked.scrape
  /\ ~cov_ok => asked.cover
  /\ ~res_ok => asked.resume
  /\ exc = asked.raised

\* process_drive_excel:150-169: the JobApplication of the row, created
\* (found = 0) or updated from the sheet.
RowJob(job_data, found, resume) ==
  IF found = 0
    THEN NewJob(job_data, ShouldGen(job_data.generate_resume),
                ShouldGen(job_data.generate_cover_letter),
                DoneInSheet(job_data.resume_generated),
                DoneInSheet(job_data.cover_letter_generated), resume)
    ELSE UpdatedJob(jobs[found], job_data, ShouldGen(job_data.generate_resume),
                    ShouldGen(job_data.generate_cover_letter))

\* process_drive_excel:132, 140: the row is skipped.
RowSkippedWhenDone(job_data, force) ==
  /\ ~force
  /\ DoneInSheet(job_data.resume_generated)
  /\ DoneInSheet(job_data.cover_letter_generated)
RowSkipped(job_data, force) ==
  \/ /\ ~force
     /\ DoneInSheet(job_data.resume_generated)
     /\ DoneInSheet(job_data.cover_letter_generated)
  \/ /\ ~force
     /\ ~ShouldGen(job_data.generate_resume)
     /\ ~ShouldGen(job_data.generate_cover_letter)

\* No adapter call was made for the row.
NoCalls ==
  [scrape |-> FALSE, cover |-> FALSE, resume |-> FALSE, recs |-> FALSE,
   doc |-> FALSE, raised |-> "none"]

\* What one iteration of the for loop of process_drive_excel did:
\*   row         the spreadsheet row (excel_row_index) and the job's id (0 if
\*               the row has no JobApplication)
\*   outcome     the counter the row went to: skipped, processed or error
\*   force       force_reprocess of the call
\*   sheet_done  both completion cells of the row read yes (the booleans
\*               read_excel_from_drive parsed)
\*   local_done  the row's JobApplication had both flags true before the row
\*   asked       the adapter calls made
\*   status      the status of the row's JobApplication after the row
\*   wrote       update_excel_in_drive uploaded the sheet
\*   mutated     a table of the store was written
\*   before      the company_name, additional_instructions and
\*               job_description of the row's JobApplication before the row
\*               ('' if it did not exist)
RowEntry(job_data, id, outcome, force, local_done, asked, status, wrote, mutated) ==
  [row |-> job_data.excel_row_index, id |-> id, outcome |-> outcome,
   force |-> force,
   sheet_done |-> job_data.resume_generated /\ job_data.cover_letter_generated,
   local_done |-> local_done, asked |-> asked, status |-> status,
   wrote |-> wrote, mutated |-> mutated,
   before |-> IF id \in 1..Len(jobs)
                THEN [company_name |-> jobs[id].company_name,
                      additional_instructions |-> jobs[id].additional_instructions,
                      job_description |-> jobs[id].job_description]
                ELSE [company_name |-> "", additional_instructions |-> "",
                      job_description |-> ""]]

\* process_drive_excel:133, 141, 180-182, 186: the row goes to one of the
\* three counters.
CountedUnlessSkipped(c, counter) ==
  IF counter = "skipped" THEN c ELSE [c EXCEPT ![counter] = @ + 1]
Counted(c, counter) == [c EXCEPT ![counter] = @ + 1]

\* process_drive_excel:126-186: one iteration of the for loop, the call of
\* _process_single_job included.
ProcessRow(scr, cov_ok, res_ok, exc) ==
  /\ pc = "rows"
  /\ cursor <= Len(job_apps_data)
  /\ hist.faults + Faults(scr, cov_ok, res_ok, exc) <= MaxFaults
  /\ \E job_data \in {job_apps_data[cursor]} :
     \E found \in {FindJob(jobs, job_data.job_url, active_resume)} :
     \E job_app \in {RowJob(job_data, found, active_resume)} :
     \E local_done \in {found # 0 /\ jobs[found].resume_generated
                                  /\ jobs[found].cover_letter_generated} :
       IF RowSkipped(job_data, force_reprocess)
         THEN \* 132-134, 140-142: skipped
              /\ Faults(scr, cov_ok, res_ok, exc) = 0
              /\ counts' = Counted(counts, "skipped")
              /\ row_log' = Append(row_log,
                   RowEntry(job_data, found, "skipped", force_reprocess,
                            local_done, NoCalls,
                            IF found = 0 THEN "none" ELSE jobs[found].status,
                            FALSE, FALSE))
              /\ UNCHANGED <<storeVars, sheet, hist>>
         ELSE IF found = 0 /\ UniqueViolation(jobs, job_app.unique_id)
         THEN \* 151 raises IntegrityError, caught at 184-186
              /\ Faults(scr, cov_ok, res_ok, exc) = 0
              /\ counts' = Counted(counts, "errors")
              /\ row_log' = Append(row_log,
                   RowEntry(job_data, 0, "error", force_reprocess, local_done,
                            NoCalls, "none", FALSE, FALSE))
              /\ UNCHANGED <<storeVars, sheet, hist>>
         ELSE \E id \in {IF found = 0 THEN Len(jobs) + 1 ELSE found} :
              \E r \in {process_single_job(
                          Call(IF found = 0 THEN Append(jobs, job_app)
                               ELSE [jobs EXCEPT ![found] = job_app],
                               id, job_app, genResumes, genCovers, docs, sheet,
                               resumes[active_resume].content, config,
                               force_reprocess, scr, cov_ok, res_ok, exc))} :
              /\ AnswersUsed(r.asked, scr, cov_ok, res_ok, exc)
              /\ jobs' = r.jobs
              /\ genResumes' = r.genResumes
              /\ genCovers' = r.genCovers
              /\ docs' = r.docs
              /\ sheet' = r.sheet
              /\ genCalls' =
                   [(IF found = 0 THEN Append(genCalls, [resume |-> 0, cover |-> 0])
                     ELSE genCalls) EXCEPT
                      ![id].resume = @ + (IF r.generated.resume THEN 1 ELSE 0),
                      ![id].cover = @ + (IF r.generated.cover THEN 1 ELSE 0)]
              /\ counts' = Counted(counts, IF r.success THEN "processed"
                                            ELSE "errors")
              /\ row_log' = Append(row_log,
                   RowEntry(job_data, id,
                            IF r.success THEN "processed" ELSE "error",
                            force_reprocess, local_done, r.asked,
                            r.jobs[id].status,
                            r.success /\ job_app.excel_row_index # 0, TRUE))
              /\ hist' = [hist EXCEPT
                   !.cur_clean = @ /\ ~r.adapter_failed,
                   !.faults = @ + Faults(scr, cov_ok, res_ok, exc)]
  /\ cursor' = cursor + 1
  /\ UNCHANGED <<resumes, config, upc, pc, job_apps_data, active_resume,
                 force_reprocess, last_result, cycles, otherVars>>

\* process_drive_excel:188-199: the loop is over, the counts are returned.
CycleEnd ==
  /\ pc = "rows"
  /\ cursor > Len(job_apps_data)
  /\ pc' = "idle"
  /\ last_result' = [success |-> TRUE, processed |-> counts.processed,
                     skipped |-> counts.skipped, errors |-> counts.errors,
                     total |-> Len(job_apps_data)]
  /\ hist' = EndOfCall(hist, hist.cur_clean)
  /\ job_apps_data' = <<>>
  /\ cursor' = 1
  /\ active_resume' = 0
  /\ force_reprocess' = FALSE
  /\ counts' = [processed |-> 0, skipped |-> 0, errors |-> 0]
  /\ row_log' = <<>>
  /\ config' = [config EXCEPT !.last_checked = @ + 1]
  /\ UNCHANGED <<resumes, storeVars, sheet, upc, cycles, otherVars>>

\* The user edits the sheet between two cycles: the completion cells of a
\* data row are set by hand, once between two calls (the sheet before the
\* first cycle is drawn by Init).
UserEditSheet(i, rg, cg) ==
  /\ pc = "idle"
  /\ cycles < MaxCycles
  /\ hist.prev_valid
  /\ i \in 1..Len(sheet)
  /\ <<rg, cg>> # <<sheet[i].resume_generated, sheet[i].cover_letter_generated>>
  /\ sheet' = [sheet EXCEPT ![i].resume_generated = rg,
                            ![i].cover_letter_generated = cg]
  /\ hist' = [hist EXCEPT !.prev_valid = FALSE]
  /\ UNCHANGED <<resumes, storeVars, config, upc, pc, job_apps_data, cursor,
                 active_resume, force_reprocess, counts, last_result, cycles,
                 row_log, otherVars>>

\* ---------------------------------------------------------- specifications
\* The sheets the engine is run on (row 1 of a sheet is its header; data row
\* i is spreadsheet row i + 1):
\*   a posting whose URL the company patterns match, everything asked for;
\*   the same with a second posting;
\*   a row with a blank URL, no description and empty completion cells, then
\*     a posting whose sheet already reads resume_generated = yes;
\*   a row without URL whose description is in the sheet and whose
\*     additional_instructions hold a pasted description, asking for
\*     recommendations only, then a row asking for nothing;
\*   three rows, the second blank.
AllSheets ==
  { << SheetRow("u1", NaN, NaN, "yes", "yes", "yes", "no", "no") >>,
    << SheetRow("u1", NaN, NaN, "yes", "yes", "yes", "no", "no"),
       SheetRow("u2", NaN, NaN, "yes", "yes", "yes", "no", "no") >>,
    << SheetRow(" ", NaN, "note", "yes", "yes", "yes", NaN, NaN),
       [SheetRow(" u1 ", NaN, NaN, "Yes", "yes", "yes", "yes", "no")
          EXCEPT !.company_name = "Old Co"] >>,
    << SheetRow(NaN, "jd", "pasted", "yes", "no", "no", "no", "no"),
       SheetRow("u2", NaN, NaN, "no", "no", "yes", "yes", "yes") >>,
    << SheetRow("u1", NaN, NaN, "yes", "yes", "yes", "no", "no"),
       SheetRow(NaN, " ", NaN, "yes", "yes", "yes", "no", "no"),
       SheetRow("u2", NaN, NaN, "yes", "no", "yes", "no", "no") >> }

Sheets == {s \in AllSheets : Len(s) <= MaxRows}

\* GoogleDriveConfig rows: the model's defaults (all three on), and one with
\* resume generation and the unconditional cover letter switched off.
Configs ==
  { [generate_new_resume |-> TRUE, generate_recommendations |-> TRUE,
     always_generate_cover_letter |-> TRUE, last_checked |-> 0],
    [generate_new_resume |-> TRUE, generate_recommendations |-> TRUE,
     always_generate_cover_letter |-> FALSE, last_checked |-> 0] }

InitCycle ==
  /\ pc = "idle"
  /\ job_apps_data = <<>>
  /\ cursor = 1
  /\ active_resume = 0
  /\ force_reprocess = FALSE
  /\ counts = [processed |-> 0, skipped |-> 0, errors |-> 0]
  /\ last_result = [success |-> FALSE, error |-> "not called"]
  /\ cycles = 0
  /\ hist = [prev_valid |-> FALSE, prev_clean |-> FALSE, prev_flags |-> <<>>,
             prev_rows |-> <<0, 0>>, cur_clean |-> TRUE, ever_forced |-> FALSE,
             faults |-> 0]
  /\ row_log = <<>>

\* update_excel_in_drive has not been called on its own.
NoWrite ==
  [called |-> FALSE, row_index |-> 0, raised |-> FALSE, before |-> <<>>,
   set |-> [rg |-> FALSE, cg |-> FALSE, recs |-> FALSE, company |-> FALSE,
            url |-> FALSE]]

\* monitor_loop is not running and no GoogleDriveConfig exists.
NoMonitor ==
  [configs |-> <<>>, pc |-> "stopped", todo |-> <<>>,
   loaded |-> [excel_file_id |-> "", is_monitoring |-> FALSE],
   at_start |-> {}, stopped_at_start |-> {}, ran |-> {}, failed |-> {},
   listed |-> FALSE, iterations |-> 0, interrupted |-> FALSE, stopped |-> {},
   last |-> [success |-> FALSE, config_id |-> 0]]

\* process_drive_now has not been requested.
NoManual ==
  [pc |-> "idle", data |-> <<>>, cursor |-> 1, resume |-> 0, id |-> 0,
   job |-> [status |-> "none"], scraped |-> FALSE,
   counts |-> [processed |-> 0, skipped |-> 0, errors |-> 0]]

\* _process_single_job has not been called on its own.
NoSingle ==
  [called |-> FALSE, before |-> [status |-> "none"], force |-> FALSE,
   asked |-> [scrape |-> FALSE, cover |-> FALSE, resume |-> FALSE,
              recs |-> FALSE, doc |-> FALSE, raised |-> "none"],
   generated |-> [cover |-> FALSE, resume |-> FALSE], success |-> FALSE,
   rows |-> <<0, 0>>, scr |-> "good"]

\* ExcelSyncService before sync_excel_data is called: no cache file.
NoSync ==
  [called |-> FALSE, excel_data |-> <<>>, jobs |-> <<>>, cache |-> {},
   file |-> [readable |-> FALSE, jobs |-> {}],
   stats |-> [new |-> 0, updated |-> 0, unchanged |-> 0, total |-> 0]]

InitOther ==
  /\ wlog = NoWrite
  /\ mon = NoMonitor
  /\ man = NoManual
  /\ single = NoSingle
  /\ sync = NoSync

InitStore ==
  /\ jobs = <<>>
  /\ genResumes = <<>>
  /\ genCovers = <<>>
  /\ docs = <<>>
  /\ genCalls = <<>>
  /\ upc = [u \in Uploaders |-> [at |-> "idle", id |-> 0]]

\* The reconciliation engine over a sheet, with a resume uploaded before.
Init ==
  /\ InitStore
  /\ InitCycle
  /\ InitOther
  /\ resumes = <<[is_active |-> TRUE, content |-> "cv"]>>
  /\ config \in Configs
  /\ sheet \in Sheets

Next ==
  \/ \E force \in BOOLEAN, read_ok \in BOOLEAN : CycleStart(force, read_ok)
  \/ \E scr \in ScrapeResults, cov_ok \in BOOLEAN, res_ok \in BOOLEAN,
        exc \in ExcPoints : ProcessRow(scr, cov_ok, res_ok, exc)
  \/ CycleEnd
  \/ CycleUnknownConfig
  \/ \E i \in 1..Len(sheet), rg \in {"yes", "no"}, cg \in {"yes", "no"} :
        UserEditSheet(i, rg, cg)

Spec == Init /\ [][Next]_vars

\* Resume uploads and reconciliation cycles over a sheet that has its header
\* row only, starting with no resume or one.
InitUploads ==
  /\ InitStore
  /\ InitCycle
  /\ InitOther
  /\ resumes \in {<<>>, <<[is_active |-> TRUE, content |-> "cv"]>>}
  /\ config \in Configs
  /\ sheet = <<>>

\* No upload_resume request is between its first and its last statement.
NoUploadInFlight == \A u \in Uploaders : upc[u].at = "idle"

\* Requests served one after another: an upload starts, and a cycle starts,
\* only when no upload is in flight and no cycle is running.
SeqUploadDeactivate(u) == NoUploadInFlight /\ pc = "idle" /\ UploadDeactivate(u)
SeqCycleStart(force, read_ok) == NoUploadInFlight /\ CycleStart(force, read_ok)

NextSeq ==
  \/ \E u \in Uploaders : SeqUploadDeactivate(u)
  \/ \E u \in Uploaders : UploadInsert(u)
  \/ \E u \in Uploaders : UploadContent(u)
  \/ \E force \in BOOLEAN, read_ok \in BOOLEAN : SeqCycleStart(force, read_ok)
  \/ CycleEnd

SeqSpec == InitUploads /\ [][NextSeq]_vars

\* Requests served concurrently (one worker per request, the monitor in its
\* own thread): the statements of uploads and cycles interleave freely.
NextConc ==
  \/ \E u \in Uploaders : UploadDeactivate(u)
  \/ \E u \in Uploaders : UploadInsert(u)
  \/ \E u \in Uploaders : UploadContent(u)
  \/ \E force \in BOOLEAN, read_ok \in BOOLEAN : CycleStart(force, read_ok)
  \/ CycleEnd

ConcSpec == InitUploads /\ [][NextConc]_vars

\* The arguments update_excel_in_drive is called with: each may be None.
FlagArgs == {None, Some(TRUE), Some(FALSE)}
RecsArgs == {None, Some("recs")}
CompanyArgs == {None, Some("Acme Corp")}
UrlArgs == {None, Some("1")}

\* GoogleDriveService.update_excel_in_drive(file_id, row_index, ...) called on
\* the sheet as it is: download (154-176), conversions (179-215), the range
\* test (217-221), the assignments (223-234), upload (236-253); any exception
\* is raised again at 257-258.  io_ok: the download and the upload succeed.
WriteRow(row_index, rg, cg, recs, company, url, io_ok) ==
  /\ pc = "idle"
  /\ ~wlog.called
  /\ \E raised \in {~io_ok \/ InvalidRowIndex(sheet, row_index)} :
       /\ wlog' = [called |-> TRUE, row_index |-> row_index, raised |-> raised,
                   before |-> sheet,
                   set |-> [rg |-> rg # None, cg |-> cg # None,
                            recs |-> recs # None, company |-> company # None,
                            url |-> url # None]]
       /\ sheet' = IF raised THEN sheet
                   ELSE update_excel_in_drive(sheet, row_index, rg, cg, recs,
                                              company, url)
  /\ UNCHANGED <<resumes, storeVars, config, upc, cycleVars, mon, man, single, sync>>

\* update_excel_in_drive on its own, once, on each of the sheets.
NextSheet ==
  \E row_index \in 0..(MaxRows + 2), rg \in FlagArgs, cg \in FlagArgs,
     recs \in RecsArgs, company \in CompanyArgs, url \in UrlArgs,
     io_ok \in BOOLEAN :
       WriteRow(row_index, rg, cg, recs, company, url, io_ok)

SheetSpec == Init /\ [][NextSheet]_vars

\* ------------------------------------------------------------ monitor_loop
\* The spreadsheets start_monitoring is called for.
Files == {"f1", "f2"}

\* GoogleDriveConfig.objects.get(excel_file_id=...) / get_or_create's lookup:
\* the id (position) of the config of the file, 0 if there is none.
FindConfig(configs, excel_file_id) ==
  LET m == {i \in 1..Len(configs) : configs[i].excel_file_id = excel_file_id}
  IN IF m = {} THEN 0 ELSE CHOOSE i \in m : \A k \in m : i <= k

\* monitor_loop:412: GoogleDriveConfig.objects.filter(is_monitoring=True).
MonitoredAll(cfg) == TRUE
Monitored(cfg) == cfg.is_monitoring

RECURSIVE FilterFrom(_, _)
FilterFrom(configs, i) ==
  IF i > Len(configs) THEN <<>>
  ELSE IF Monitored(configs[i]) THEN <<i>> \o FilterFrom(configs, i + 1)
  ELSE FilterFrom(configs, i + 1)

\* monitor_loop:414-424: the for loop after the cycle of one config returned
\* its result: the result is printed, whatever it is, and the loop goes on
\* with the next config.
AbortOnFailure(todo, success) == IF success THEN Tail(todo) ELSE <<>>
AfterCycle(todo, success) == Tail(todo)

\* start_monitoring(excel_file_id, output_folder_id).  meta_ok: get_file_metadata
\* returns (otherwise it raises and 65-66 return a failure).  get_or_create
\* inserts a config with is_monitoring = True or finds the file's config,
\* which 54-58 then switch on again.
StartMonitoring(excel_file_id, meta_ok) ==
  /\ mon.pc # "stopped"
  /\ \E found \in {FindConfig(mon.configs, excel_file_id)} :
     \E id \in {IF found = 0 THEN Len(mon.configs) + 1 ELSE found} :
       mon' = IF ~meta_ok
                THEN [mon EXCEPT !.last = [success |-> FALSE, config_id |-> 0]]
              ELSE [mon EXCEPT
                     !.configs =
                        IF found = 0
                          THEN Append(@, [excel_file_id |-> excel_file_id,
                                          is_monitoring |-> TRUE])
                          ELSE [@ EXCEPT ![found].is_monitoring = TRUE],
                     !.stopped = @ \ {id},
                     !.last = [success |-> TRUE, config_id |-> id]]
  /\ UNCHANGED <<resumes, storeVars, config, sheet, upc, cycleVars, wlog, man, single, sync>>

\* stop_monitoring(config_id, excel_file_id): the config is looked up by id,
\* else by file, and saved with is_monitoring = False; without a key, or
\* without a matching config, a failure is returned.
StopMonitoring(config_id, excel_file_id) ==
  /\ mon.pc # "stopped"
  /\ \E id \in {IF config_id # None
                   THEN (IF config_id[1] \in 1..Len(mon.configs)
                           THEN config_id[1] ELSE 0)
                 ELSE IF excel_file_id # None
                   THEN FindConfig(mon.configs, excel_file_id[1])
                 ELSE 0} :
       mon' = IF id = 0
                THEN [mon EXCEPT !.last = [success |-> FALSE, config_id |-> 0]]
              ELSE [mon EXCEPT !.configs[id].is_monitoring = FALSE,
                               !.stopped = @ \cup {id},
                               !.last = [success |-> TRUE, config_id |-> id]]
  /\ UNCHANGED <<resumes, storeVars, config, sheet, upc, cycleVars, wlog, man, single, sync>>

\* monitor_loop:409-412: an iteration of the while loop starts and the
\* monitored configs are listed.  list_ok: the query returns (otherwise the
\* handler at 429-431 prints the error and sleeps).
MonIterStart(list_ok) ==
  /\ mon.pc = "sleep"
  /\ mon.iterations < MaxIterations
  /\ mon' = [mon EXCEPT
       !.iterations = @ + 1,
       !.listed = list_ok,
       !.pc = IF list_ok THEN "run" ELSE "sleep",
       !.todo = IF list_ok THEN FilterFrom(mon.configs, 1) ELSE <<>>,
       !.at_start = {i \in 1..Len(mon.configs) : mon.configs[i].is_monitoring},
       !.stopped_at_start = mon.stopped,
       !.ran = {},
       !.failed = {}]
  /\ UNCHANGED <<resumes, storeVars, config, sheet, upc, cycleVars, wlog, man, single, sync>>

\* monitor_loop:416 with process_drive_excel:109: the cycle of the next
\* config starts and loads the config's row.
MonCycleStart ==
  /\ mon.pc = "run"
  /\ mon.todo # <<>>
  /\ mon' = [mon EXCEPT !.pc = "cycle", !.loaded = mon.configs[Head(mon.todo)]]
  /\ UNCHANGED <<resumes, storeVars, config, sheet, upc, cycleVars, wlog, man, single, sync>>

\* process_drive_excel:111-202 with monitor_loop:418-423: the cycle returns
\* its result.  success: the sheet was read, an active resume exists and the
\* loop over the rows ended; then 189-191 save the config object loaded at
\* 109, every field of it.  A failure returns before the save.
MonCycleEnd(success) ==
  /\ mon.pc = "cycle"
  /\ \E id \in {Head(mon.todo)} :
       mon' = [mon EXCEPT
         !.pc = "run",
         !.configs = IF success THEN [@ EXCEPT ![id] = mon.loaded] ELSE @,
         !.ran = @ \cup {id},
         !.failed = IF success THEN @ ELSE @ \cup {id},
         !.todo = AfterCycle(@, success)]
  /\ UNCHANGED <<resumes, storeVars, config, sheet, upc, cycleVars, wlog, man, single, sync>>

\* monitor_loop:425: the for loop is over, the loop sleeps.
MonSleep ==
  /\ mon.pc = "run"
  /\ mon.todo = <<>>
  /\ mon' = [mon EXCEPT !.pc = "sleep"]
  /\ UNCHANGED <<resumes, storeVars, config, sheet, upc, cycleVars, wlog, man, single, sync>>

\* monitor_loop:427-428: KeyboardInterrupt ends the loop.
MonInterrupt ==
  /\ mon.pc # "stopped"
  /\ mon' = [mon EXCEPT !.pc = "stopped", !.interrupted = TRUE]
  /\ UNCHANGED <<resumes, storeVars, config, sheet, upc, cycleVars, wlog, man, single, sync>>

\* The monitor starts with no config, with one monitored file, or with a
\* monitored and a stopped one.
InitMon ==
  /\ InitStore
  /\ InitCycle
  /\ wlog = NoWrite
  /\ man = NoManual
  /\ single = NoSingle
  /\ sync = NoSync
  /\ resumes = <<[is_active |-> TRUE, content |-> "cv"]>>
  /\ config \in Configs
  /\ sheet = <<>>
  /\ \E cs \in { <<>>,
                  <<[excel_file_id |-> "f1", is_monitoring |-> TRUE]>>,
                  <<[excel_file_id |-> "f1", is_monitoring |-> TRUE],
                    [excel_file_id |-> "f2", is_monitoring |-> FALSE]>> } :
       mon = [NoMonitor EXCEPT
                !.configs = cs, !.pc = "sleep",
                !.stopped = {i \in 1..Len(cs) : ~cs[i].is_monitoring}]

NextMon ==
  \/ \E f \in Files, meta_ok \in BOOLEAN : StartMonitoring(f, meta_ok)
  \/ \E config_id \in {None, Some(1), Some(2), Some(3)},
        excel_file_id \in {None} \cup {Some(f) : f \in Files} :
          StopMonitoring(config_id, excel_file_id)
  \/ \E list_ok \in BOOLEAN : MonIterStart(list_ok)
  \/ MonCycleStart
  \/ \E success \in BOOLEAN : MonCycleEnd(success)
  \/ MonSleep
  \/ MonInterrupt

MonSpec == InitMon /\ [][NextMon]_vars

\* ------------------------------------------------------- process_drive_now
\* views.process_drive_now:360-364 calls process_drive_excel(config_id) in the
\* web worker that serves the request, while monitor_loop runs its cycles in
\* the process of the management command.  The statements of this second call
\* are followed in steps, so that the cycle of the monitor can run between
\* them: the start (108-120), for each row the lookup, create or update and
\* the description backfill (126-239), then the rest of the row (241-398).
ManualStart ==
  /\ man.pc = "idle"
  /\ get_active_resume(resumes) # 0
  /\ man' = [man EXCEPT !.pc = "rows",
                         !.data = read_excel_from_drive(sheet),
                         !.cursor = 1,
                         !.resume = get_active_resume(resumes)]
  /\ UNCHANGED <<resumes, storeVars, config, sheet, upc, cycleVars, wlog, mon,
                 single, sync>>

\* process_drive_excel:126-169 and _process_single_job:219-239 for the row at
\* the cursor: the row is skipped, or its JobApplication is found or created
\* and saved, the description is backfilled and tested; the in-memory
\* JobApplication is kept for the rest of the row.
ManualLoadRow(scr) ==
  /\ man.pc = "rows"
  /\ man.cursor <= Len(man.data)
  /\ \E job_data \in {man.data[man.cursor]} :
     \E found \in {FindJob(jobs, job_data.job_url, man.resume)} :
     \E job_app \in {RowJob(job_data, found, man.resume)} :
       IF RowSkipped(job_data, FALSE)
         THEN /\ scr = "good"
              /\ man' = [man EXCEPT !.cursor = @ + 1, !.counts.skipped = @ + 1]
              /\ UNCHANGED <<jobs, genCalls>>
       ELSE IF found = 0 /\ UniqueViolation(jobs, job_app.unique_id)
         THEN /\ scr = "good"
              /\ man' = [man EXCEPT !.cursor = @ + 1, !.counts.errors = @ + 1]
              /\ UNCHANGED <<jobs, genCalls>>
       ELSE \E id \in {IF found = 0 THEN Len(jobs) + 1 ELSE found} :
            \E b \in {Backfill(
                        Call(IF found = 0 THEN Append(jobs, job_app)
                             ELSE [jobs EXCEPT ![found] = job_app],
                             id, job_app, genResumes, genCovers, docs, sheet,
                             resumes[man.resume].content, config, FALSE, scr,
                             TRUE, TRUE, "none"))} :
              /\ scr # "good" => b.scraped
              /\ jobs' = b.js
              /\ genCalls' = IF found = 0
                               THEN Append(genCalls, [resume |-> 0, cover |-> 0])
                               ELSE genCalls
              /\ man' = IF b.rejected
                          THEN [man EXCEPT !.cursor = @ + 1,
                                           !.counts.errors = @ + 1]
                          ELSE [man EXCEPT !.pc = "loaded", !.id = id,
                                           !.job = b.job,
                                           !.scraped = b.scraped]
  /\ UNCHANGED <<resumes, genResumes, genCovers, docs, config, sheet, upc,
                 cycleVars, wlog, mon,
                 single, sync>>

\* _process_single_job:241-398 for the loaded row, on the in-memory
\* JobApplication as 126-239 left it and on the tables, documents and sheet
\* as they are now.
ManualRunRow ==
  /\ man.pc = "loaded"
  /\ \E r \in {Accepted(
                  Call(jobs, man.id, man.job, genResumes, genCovers, docs,
                       sheet, resumes[man.resume].content, config, FALSE,
                       "good", TRUE, TRUE, "none"),
                  [scraped |-> man.scraped, js |-> jobs, job |-> man.job,
                   rejected |-> FALSE])} :
       /\ jobs' = r.jobs
       /\ genResumes' = r.genResumes
       /\ genCovers' = r.genCovers
       /\ docs' = r.docs
       /\ sheet' = r.sheet
       /\ genCalls' = [genCalls EXCEPT
            ![man.id].resume = @ + (IF r.generated.resume THEN 1 ELSE 0),
            ![man.id].cover = @ + (IF r.generated.cover THEN 1 ELSE 0)]
       /\ man' = [man EXCEPT
            !.pc = "rows", !.cursor = @ + 1,
            !.counts = IF r.success THEN [@ EXCEPT !.processed = @ + 1]
                       ELSE [@ EXCEPT !.errors = @ + 1]]
  /\ UNCHANGED <<resumes, config, upc, cycleVars, wlog, mon,
                 single, sync>>

\* process_drive_excel:188-199 of the manual call: the loop is over.
ManualEnd ==
  /\ man.pc = "rows"
  /\ man.cursor > Len(man.data)
  /\ man' = [man EXCEPT !.pc = "done"]
  /\ config' = [config EXCEPT !.last_checked = @ + 1]
  /\ UNCHANGED <<resumes, storeVars, sheet, upc, cycleVars, wlog, mon,
                 single, sync>>

\* One cycle runner of the monitor and one manual call, neither forced, the
\* Generation, Document and store adapters answering every call.
NextConcCycle ==
  \/ CycleStart(FALSE, TRUE)
  \/ \E scr \in ScrapeResults : ProcessRow(scr, TRUE, TRUE, "none")
  \/ CycleEnd
  \/ ManualStart
  \/ \E scr \in ScrapeResults : ManualLoadRow(scr)
  \/ ManualRunRow
  \/ ManualEnd

ConcCycleSpec == Init /\ [][NextConcCycle]_vars

\* ------------------------------------------------- _process_single_job alone
\* Every setting of the three toggles of a GoogleDriveConfig.
AllConfigs ==
  [generate_new_resume : BOOLEAN, generate_recommendations : BOOLEAN,
   always_generate_cover_letter : BOOLEAN, last_checked : {0}]

\* A JobApplication of the sheet's first row as earlier cycles can have left
\* it: any intents and completion flags, the status the flags give or failed,
\* the description stored (desc = "good") or, for a job nothing was ever
\* generated for, still empty.
StoredJob(gr, gc, gn, rg, cg, failed, desc, excel_row_index) ==
  [unique_id |-> "", job_url |-> "u1", job_description |-> desc,
   additional_instructions |-> "", generate_resume |-> gr,
   generate_cover_letter |-> gc, generate_new_resume |-> gn,
   resume_generated |-> rg, cover_letter_generated |-> cg,
   excel_row_index |-> excel_row_index, company_name |-> "", user_resume |-> 1,
   status |-> IF failed THEN "failed" ELSE NewStatus("pending", rg, cg)]

\* _process_single_job(job_app, resume_content, config, force_reprocess) on
\* the stored job, as process_drive_excel:172-177 calls it for a row.
SingleJob(force, scr, cov_ok, res_ok, exc) ==
  /\ pc = "idle"
  /\ ~single.called
  /\ Len(jobs) = 1
  /\ \E r \in {process_single_job(
                  Call(jobs, 1, jobs[1], genResumes, genCovers, docs, sheet,
                       resumes[1].content, config, force, scr, cov_ok, res_ok,
                       exc))} :
       /\ AnswersUsed(r.asked, scr, cov_ok, res_ok, exc)
       /\ single' = [called |-> TRUE, before |-> jobs[1], force |-> force,
                     asked |-> r.asked, generated |-> r.generated,
                     success |-> r.success,
                     rows |-> <<Len(r.genResumes) - Len(genResumes),
                                Len(r.genCovers) - Len(genCovers)>>,
                     scr |-> scr]
       /\ jobs' = r.jobs
       /\ genResumes' = r.genResumes
       /\ genCovers' = r.genCovers
       /\ docs' = r.docs
       /\ sheet' = r.sheet
       /\ genCalls' = [genCalls EXCEPT
            ![1].resume = @ + (IF r.generated.resume THEN 1 ELSE 0),
            ![1].cover = @ + (IF r.generated.cover THEN 1 ELSE 0)]
  /\ UNCHANGED <<resumes, config, upc, cycleVars, wlog, mon, man, sync>>

\* One stored job with the artifacts its flags stand for, under every config.
InitGate ==
  /\ InitCycle
  /\ wlog = NoWrite
  /\ mon = NoMonitor
  /\ man = NoManual
  /\ single = NoSingle
  /\ sync = NoSync
  /\ upc = [u \in Uploaders |-> [at |-> "idle", id |-> 0]]
  /\ resumes = <<[is_active |-> TRUE, content |-> "cv"]>>
  /\ config \in AllConfigs
  /\ \E gr \in BOOLEAN, gc \in BOOLEAN, gn \in BOOLEAN, rg \in BOOLEAN,
        cg \in BOOLEAN, failed \in BOOLEAN, desc \in {"", "good"},
        excel_row_index \in {0, 2} :
       /\ desc = "" => (~rg /\ ~cg)
       /\ jobs = << StoredJob(gr, gc, gn, rg, cg, failed, desc, excel_row_index) >>
       /\ sheet = << [SheetRow("u1", NaN, NaN, "yes", "yes", "yes", "no", "no")
                        EXCEPT !.recommendations = IF rg THEN "recs" ELSE NaN,
                               !.google_doc_url = IF rg \/ cg THEN DocUrl(1)
                                                  ELSE NaN] >>
       /\ docs = IF rg \/ cg
                   THEN create_google_doc(<<>>, 1, "generated", "generated")
                   ELSE <<>>
       /\ genResumes = IF rg THEN <<[job |-> 1, content |-> "generated",
                                     google_doc_id |-> 1]>>
                       ELSE <<>>
       /\ genCovers = IF cg THEN <<[job |-> 1, google_doc_id |-> 1]>> ELSE <<>>
       /\ genCalls = <<[resume |-> IF rg THEN 1 ELSE 0,
                        cover |-> IF cg THEN 1 ELSE 0]>>

NextGate ==
  \E force \in BOOLEAN, scr \in ScrapeResults \cup ScrapeFailures,
     cov_ok \in BOOLEAN, res_ok \in BOOLEAN, exc \in ExcPoints :
       SingleJob(force, scr, cov_ok, res_ok, exc)

GateSpec == InitGate /\ [][NextGate]_vars

\* ------------------------------------------- interruption and restart
\* The points of _process_single_job:250-391 between which the loop can be
\* interrupted: after the generation calls (305), after the document upsert
\* (347), after the artifact rows (368), after job_app.save() (379).
InterruptPoints == {"generated", "documented", "stored", "saved"}

\* What the statements before the point have written.  KeyboardInterrupt is
\* not an Exception: neither the handler at 395-398 nor those of
\* process_drive_excel (184, 201) run, and nothing after the point does.
Interrupted(c, job, g, d, p, at) ==
  [jobs |-> [c.js EXCEPT ![c.id] = IF at = "saved" THEN p.job ELSE job],
   docs |-> IF at = "generated" THEN c.ds ELSE d.docs,
   genResumes |-> IF at \in {"stored", "saved"} THEN p.grs ELSE c.grs,
   genCovers |-> IF at \in {"stored", "saved"} THEN p.gcs ELSE c.gcs,
   generated |-> [cover |-> g.cover_generated, resume |-> g.resume_call /\ c.res_ok]]

\* monitor_loop:427-429: KeyboardInterrupt arrives while the row at the cursor
\* is in _process_single_job, past the description check; the loop breaks
\* and the cycle is abandoned where it is.  The scraper and the Generation
\* Adapter answered well.
InterruptRow(at) ==
  /\ pc = "rows"
  /\ cursor <= Len(job_apps_data)
  /\ hist.faults < MaxFaults
  /\ ~RowSkipped(job_apps_data[cursor], force_reprocess)
  /\ \E job_data \in {job_apps_data[cursor]} :
     \E found \in {FindJob(jobs, job_data.job_url, active_resume)} :
     \E job_app \in {RowJob(job_data, found, active_resume)} :
     \E id \in {IF found = 0 THEN Len(jobs) + 1 ELSE found} :
     \E c \in {Call(IF found = 0 THEN Append(jobs, job_app)
                     ELSE [jobs EXCEPT ![found] = job_app],
                     id, job_app, genResumes, genCovers, docs, sheet,
                     resumes[active_resume].content, config, force_reprocess,
                     "good", TRUE, TRUE, "none")} :
     \E b \in {Backfill(c)} :
     \E job \in {CompanyBackfill(b)} :
     \E g \in {Generate(c, job)} :
     \E d \in {Document(c, g)} :
     \E p \in {Persist(c, g, d)} :
     \E r \in {Interrupted([c EXCEPT !.js = b.js], job, g, d, p, at)} :
       /\ ~(found = 0 /\ UniqueViolation(jobs, job_app.unique_id))
       /\ ~b.rejected
       /\ jobs' = r.jobs
       /\ docs' = r.docs
       /\ genResumes' = r.genResumes
       /\ genCovers' = r.genCovers
       /\ genCalls' =
            [(IF found = 0 THEN Append(genCalls, [resume |-> 0, cover |-> 0])
              ELSE genCalls) EXCEPT
               ![id].resume = @ + (IF r.generated.resume THEN 1 ELSE 0),
               ![id].cover = @ + (IF r.generated.cover THEN 1 ELSE 0)]
  /\ pc' = "idle"
  /\ hist' = [hist EXCEPT !.faults = @ + 1]
  /\ job_apps_data' = <<>>
  /\ cursor' = 1
  /\ active_resume' = 0
  /\ force_reprocess' = FALSE
  /\ counts' = [processed |-> 0, skipped |-> 0, errors |-> 0]
  /\ row_log' = <<>>
  /\ UNCHANGED <<resumes, config, sheet, upc, last_result, cycles, otherVars>>

\* The monitor's cycles (no force_reprocess) with adapters that answer well,
\* interrupted and started again.
NextRestart ==
  \/ CycleStart(FALSE, TRUE)
  \/ ProcessRow("good", TRUE, TRUE, "none")
  \/ CycleEnd
  \/ \E at \in InterruptPoints : InterruptRow(at)

RestartSpec == Init /\ [][NextRestart]_vars

\* ------------------------------------------------------- ExcelSyncService
\* The unique_id values of the rows given to sync_excel_data: empty, the
\* text pandas makes of an empty cell, whitespace, and ids with and without
\* surrounding whitespace.
SyncIds == {"", "nan", " ", " nan ", "ID1", " ID1 "}

\* generate_unique_id: "JOB-<YYYYMMDD>-<8 hex digits of a uuid4>"; two calls
\* can return the same text.
FreshIds == {"JOB-20240101-0A1B2C3D", "JOB-20240101-4E5F6A7B"}

\* sync_excel_data:84: the row gets a generated id.
NeedsNewIdUnlessNan(unique_id) == unique_id = "" \/ Strip(unique_id) = ""
NeedsNewId(unique_id) ==
  unique_id = "" \/ unique_id = "nan" \/ Strip(unique_id) = ""

\* load_cache: the jobs of the cache file, none if the file is missing or
\* cannot be decoded.  An entry is a key and the job stored under it.
load_cache(file) == IF file.readable THEN file.jobs ELSE {}

\* save_cache: the file written; an IOError is caught (56-58): the file is
\* as it was if it could not be opened, and undecodable if the write broke
\* off.
SaveResults == {"ok", "open_failed", "write_failed"}
save_cache(file, cache, io) ==
  CASE io = "ok" -> [readable |-> TRUE, jobs |-> cache]
    [] io = "open_failed" -> file
    [] io = "write_failed" -> [readable |-> FALSE, jobs |-> {}]

\* _has_changes: a compared field differs after str().strip().  The rows of
\* the model differ in job_url only.
HasChanges(cached_job, new_job) == Strip(cached_job.job_url) # Strip(new_job.job_url)

\* cache['jobs'][unique_id] = {...}: the entry under the key is replaced.
Put(cache, unique_id, job) ==
  {en \in cache : en.key # unique_id} \cup {[key |-> unique_id, job |-> job]}

\* sync_excel_data:80-109: the loop from row i on.  fresh[i] is what
\* generate_unique_id returns if it is called for row i.
RECURSIVE SyncFrom(_, _, _, _)
SyncFrom(excel_data, fresh, i, acc) ==
  IF i > Len(excel_data) THEN acc
  ELSE \* 82-102
    LET given == excel_data[i].unique_id
        unique_id == IF NeedsNewId(given) THEN fresh[i] ELSE Strip(given)
        job_data == [excel_data[i] EXCEPT !.unique_id = unique_id]
        cached == {en \in acc.cache : en.key = unique_id}
        kind == IF NeedsNewId(given) \/ cached = {} THEN "new"
                ELSE IF \E en \in cached : HasChanges(en.job, job_data)
                  THEN "updated"
                ELSE "unchanged"
    IN SyncFrom(excel_data, fresh, i + 1,
         [cache |-> Put(acc.cache, unique_id, job_data),
          jobs |-> Append(acc.jobs, job_data),
          stats |-> [acc.stats EXCEPT ![kind] = @ + 1]])

\* ExcelSyncService.sync_excel_data(excel_data) on the cache file as it is.
SyncExcelData(fresh, io) ==
  /\ pc = "idle"
  /\ ~sync.called
  /\ \E r \in {SyncFrom(sync.excel_data, fresh, 1,
                         [cache |-> load_cache(sync.file), jobs |-> <<>>,
                          stats |-> [new |-> 0, updated |-> 0, unchanged |-> 0,
                                     total |-> Len(sync.excel_data)]])} :
       sync' = [sync EXCEPT !.called = TRUE, !.jobs = r.jobs,
                            !.cache = r.cache, !.stats = r.stats,
                            !.file = save_cache(@, r.cache, io)]
  /\ UNCHANGED <<resumes, storeVars, config, sheet, upc, cycleVars, wlog, mon,
                 man, single>>

\* The rows sync_excel_data is given: the dictionaries of one read of a
\* sheet, with every kind of unique_id.
SyncRows ==
  UNION { [1..n -> [unique_id : SyncIds, job_url : {"u1"}]] : n \in 0..MaxSyncRows }

\* The cache file before the call: missing, or written by an earlier call
\* that saw the row ID1 with this or with another job_url.
SyncFiles ==
  { [readable |-> FALSE, jobs |-> {}],
    [readable |-> TRUE,
     jobs |-> {[key |-> "ID1", job |-> [unique_id |-> "ID1", job_url |-> "u1"]]}],
    [readable |-> TRUE,
     jobs |-> {[key |-> "ID1", job |-> [unique_id |-> "ID1", job_url |-> "u0"]]}] }

InitSync ==
  /\ InitStore
  /\ InitCycle
  /\ wlog = NoWrite
  /\ mon = NoMonitor
  /\ man = NoManual
  /\ single = NoSingle
  /\ resumes = <<>>
  /\ config \in Configs
  /\ sheet = <<>>
  /\ \E excel_data \in SyncRows, file \in SyncFiles :
       sync = [NoSync EXCEPT !.excel_data = excel_data, !.file = file]

NextSync ==
  \E fresh \in [1..MaxSyncRows -> FreshIds], io \in SaveResults :
    SyncExcelData(fresh, io)

SyncSpec == InitSync /\ [][NextSync]_vars

\* ------------------------------------------- recovery of a failed scrape
\* The user follows the scraper's message: between two cycles a description
\* of more than 100 characters is pasted into additional_instructions of
\* data row i.
UserPastesDescription(i) ==
  /\ pc = "idle"
  /\ cycles >= 1
  /\ cycles < MaxCycles
  /\ i \in 1..Len(sheet)
  /\ ~RowExcluded(sheet[i])
  /\ sheet[i].additional_instructions # "pasted"
  /\ sheet' = [sheet EXCEPT ![i].additional_instructions = "pasted"]
  /\ UNCHANGED <<resumes, storeVars, config, upc, cycleVars, otherVars>>

\* The monitor's cycles (no force_reprocess) with a scraper that can fail
\* and a Generation Adapter that answers well, and the user pasting
\* descriptions in between.
NextRecover ==
  \/ CycleStart(FALSE, TRUE)
  \/ \E scr \in ScrapeResults : ProcessRow(scr, TRUE, TRUE, "none")
  \/ CycleEnd
  \/ \E i \in 1..Len(sheet) : UserPastesDescription(i)

RecoverSpec == Init /\ [][NextRecover]_vars

\* ------------------------------------------------------------------ claims
\* The loop of the current call is over (the call is about to return), an
\* earlier call ended, and nobody edited the sheet since.
EndOfSecondRun ==
  /\ pc = "rows"
  /\ cursor > Len(job_apps_data)
  /\ hist.prev_valid

\* The flags of the JobApplications that existed when the earlier call ended
\* are what they were then.
SameFlagsAsBefore ==
  /\ Len(jobs) >= Len(hist.prev_flags)
  /\ \A j \in 1..Len(hist.prev_flags) : Flags(jobs)[j] = hist.prev_flags[j]

\* No artifact row appended since the earlier call ended belongs to a job
\* that had a row of that kind when it ended.
NoDuplicateRows ==
  /\ \A k \in (hist.prev_rows[1] + 1)..Len(genResumes) :
       \A l \in 1..hist.prev_rows[1] : genResumes[l].job # genResumes[k].job
  /\ \A k \in (hist.prev_rows[2] + 1)..Len(genCovers) :
       \A l \in 1..hist.prev_rows[2] : genCovers[l].job # genCovers[k].job

C2_FlagsNeverUnset ==
  [][\A j \in 1..Len(jobs) :
       /\ jobs[j].resume_generated => jobs'[j].resume_generated
       /\ jobs[j].cover_letter_generated => jobs'[j].cover_letter_generated]_vars

\* In a later cycle without force_reprocess a row whose resume_generated cell
\* was read as not done has been processed, and its JobApplication's flag,
\* true since an earlier cycle, is still true.
C2_Witness ==
  /\ pc = "rows"
  /\ cycles >= 2
  /\ ~hist.ever_forced
  /\ \E k \in 1..Len(job_apps_data) :
       /\ k < cursor
       /\ ~job_apps_data[k].resume_generated
       /\ \E j \in 1..Len(hist.prev_flags) :
            /\ jobs[j].job_url = job_apps_data[k].job_url
            /\ hist.prev_flags[j][1]
            /\ jobs[j].resume_generated

\* C3: without force_reprocess the Generation Adapter returns text at most
\* once for every JobApplication and artifact kind.
C3_AtMostOnce ==
  ~hist.ever_forced =>
    \A j \in 1..Len(genCalls) : genCalls[j].resume <= 1 /\ genCalls[j].cover <= 1

\* C4: with uploads served one after another, whenever no create is between
\* its two statements and a resume exists, exactly one resume is active and it
\* is the most recently created one; between the two statements of a create
\* (the previously active resume deactivated, the new one not yet inserted)
\* none is.
C4_SequentialCreates ==
  /\ (Len(resumes) > 0 /\ \A u \in Uploaders : upc[u].at # "insert")
       => ActiveIds(resumes) = {Len(resumes)}
  /\ (\E u \in Uploaders : upc[u].at = "insert") => ActiveIds(resumes) = {}

\* Three creates have run one after another.
C4_Witness ==
  /\ NoUploadInFlight
  /\ Len(resumes) = 3
  /\ ~resumes[1].is_active
  /\ ~resumes[2].is_active
  /\ resumes[3].is_active

\* C5: once a resume exists, exactly one resume is active in every state,
\* uploads and cycles being served concurrently.
C5_AlwaysOneActive ==
  Len(resumes) > 0 => Cardinality(ActiveIds(resumes)) = 1

\* C6: a data row of the sheet is missing from what read_excel_from_drive
\* returns if and only if its job_url and its job_description are both empty
\* after trimming; the rows a cycle works on, and the rows the JobApplications
\* of the store point at, are never such rows.
BothBlank(r) ==
  /\ (r.job_url = NaN \/ Strip(r.job_url) = "")
  /\ (r.job_description = NaN \/ Strip(r.job_description) = "")

C6_BlankRowsExcluded ==
  /\ \A i \in 1..Len(sheet) :
       BothBlank(sheet[i]) <=>
         ~\E k \in 1..Len(read_excel_from_drive(sheet)) :
             read_excel_from_drive(sheet)[k].excel_row_index = i + 1
  /\ \A k \in 1..Len(job_apps_data) :
       ~BothBlank(sheet[job_apps_data[k].excel_row_index - 1])
  /\ \A j \in 1..Len(jobs) : ~BothBlank(sheet[jobs[j].excel_row_index - 1])

\* A cycle has worked through a sheet that holds a blank row and a row with
\* only one of the two cells empty, and a JobApplication exists.
C6_Witness ==
  /\ pc = "rows"
  /\ cursor > Len(job_apps_data)
  /\ \E i \in 1..Len(sheet) : BothBlank(sheet[i])
  /\ Len(job_apps_data) < Len(sheet)
  /\ Len(jobs) > 0

\* C7: every JobApplication the cycle persisted has a non-empty unique_id.
C7_UniqueIdAssigned ==
  \A j \in 1..Len(jobs) : jobs[j].unique_id # ""

\* The rows of the running call have pairwise distinct URLs and each has a
\* generation intent set.
DistinctUrlsWithIntent ==
  /\ \A k, l \in 1..Len(job_apps_data) :
       job_apps_data[k].job_url = job_apps_data[l].job_url => k = l
  /\ \A k \in 1..Len(job_apps_data) :
       job_apps_data[k].generate_resume \/ job_apps_data[k].generate_cover_letter

\* C8: at the end of the first cycle over N rows with pairwise distinct URLs
\* and an intent set, N JobApplications exist, one per URL, with pairwise
\* distinct unique_ids.
C8_OneJobPerRow ==
  (pc = "rows" /\ cycles = 1 /\ cursor > Len(job_apps_data)
   /\ DistinctUrlsWithIntent)
    => /\ Len(jobs) = Len(job_apps_data)
       /\ \A k \in 1..Len(job_apps_data) :
            \E j \in 1..Len(jobs) : jobs[j].job_url = job_apps_data[k].job_url
       /\ \A i, j \in 1..Len(jobs) : jobs[i].unique_id = jobs[j].unique_id => i = j

\* C9: in the first cycle, the JobApplication created for a row whose
\* resume_generated (cover_letter_generated) cell reads "yes" has the flag
\* set and the Generation Adapter has returned no resume (cover letter) for it.
C9_SeededFromSheet ==
  (pc = "rows" /\ cycles = 1) =>
    \A k \in 1..Len(job_apps_data) : \A j \in 1..Len(jobs) :
      (k < cursor /\ jobs[j].job_url = job_apps_data[k].job_url) =>
        /\ job_apps_data[k].resume_generated =>
             (jobs[j].resume_generated /\ genCalls[j].resume = 0)
        /\ job_apps_data[k].cover_letter_generated =>
             (jobs[j].cover_letter_generated /\ genCalls[j].cover = 0)

\* C10: at most one document exists per JobApplication, and all artifact
\* rows of a job that carry a document carry the same one.
C10_OneDocPerJob ==
  /\ \A d, e \in 1..Len(docs) : docs[d].job = docs[e].job => d = e
  /\ \A k, l \in 1..Len(genResumes) :
       (genResumes[k].job = genResumes[l].job
        /\ genResumes[k].google_doc_id # 0 /\ genResumes[l].google_doc_id # 0)
         => genResumes[k].google_doc_id = genResumes[l].google_doc_id

\* The cells of a sheet row, by column, and whether the last call of
\* update_excel_in_drive was asked to set the column.
Columns ==
  {"unique_id", "job_url", "job_description", "additional_instructions",
   "generate_resume", "generate_cover", "generate_new_resume",
   "resume_generated", "cover_letter_generated", "recommendations",
   "company_name", "google_doc_url"}

Requested(col) ==
  \/ col = "resume_generated" /\ wlog.set.rg
  \/ col = "cover_letter_generated" /\ wlog.set.cg
  \/ col = "recommendations" /\ wlog.set.recs
  \/ col = "company_name" /\ wlog.set.company
  \/ col = "google_doc_url" /\ wlog.set.url

\* Two cells show the same value: an empty cell and an empty text are the
\* same cell in the uploaded workbook.
SameCell(a, b) == (IF a = NaN THEN "" ELSE a) = (IF b = NaN THEN "" ELSE b)

\* C11: after update_excel_in_drive returned, every cell other than the
\* requested fields of the row at row_index shows the value it had before
\* the call (no other row, no unrequested field is changed or nulled).
C11_OnlyRequestedCellsChange ==
  (wlog.called /\ ~wlog.raised) =>
    /\ Len(sheet) = Len(wlog.before)
    /\ \A i \in 1..Len(sheet) : \A col \in Columns :
         (i # wlog.row_index - 1 \/ ~Requested(col)) =>
           SameCell(sheet[i][col], wlog.before[i][col])

\* C12: update_excel_in_drive called with a row_index outside the data rows
\* (below 2, or above the number of data rows plus 1) raises and leaves the
\* sheet as it was: nothing is uploaded.
C12_OutOfRangeRaises ==
  (wlog.called /\ (wlog.row_index < 2 \/ wlog.row_index > Len(wlog.before) + 1)) =>
    /\ wlog.raised
    /\ sheet = wlog.before

\* A call with row_index one past the last data row of a sheet with data
\* rows, download and upload available, was made and raised.
C12_Witness ==
  /\ wlog.called
  /\ Len(wlog.before) >= 2
  /\ wlog.row_index = Len(wlog.before) + 2
  /\ wlog.set.rg
  /\ wlog.raised
  /\ sheet = wlog.before

\* C13: a job whose description was taken from its additional_instructions
\* (description empty, instructions long, scrape failed) has the promoted
\* text as its persisted job_description and an empty persisted
\* additional_instructions.
C13_InstructionsCleared ==
  \A j \in 1..Len(jobs) :
    jobs[j].job_description = "promoted" => jobs[j].additional_instructions = ""

\* C14: whatever process_drive_excel is called with and whatever fails in
\* it (unknown config id, unreadable sheet, no active resume, an adapter
\* failing on a row), what it hands back is a result record: a success flag
\* with the counts processed, skipped, errors and total, or a failure with an
\* error message; never an exception.
C14_StructuredResult ==
  /\ "success" \in DOMAIN last_result
  /\ IF last_result.success
       THEN /\ DOMAIN last_result = {"success", "processed", "skipped", "errors", "total"}
            /\ last_result.processed + last_result.skipped + last_result.errors
                 = last_result.total
       ELSE DOMAIN last_result = {"success", "error"}

\* A call with a config id that does not exist has returned.
C14_Witness ==
  /\ cycles > 0
  /\ pc = "idle"
  /\ "error" \in DOMAIN last_result
  /\ last_result.error = "DoesNotExist"

\* C15: an iteration of monitor_loop whose listing succeeded has, when it
\* goes to sleep, run the cycle of every config that was monitored when it
\* started, whether or not some of these cycles failed; and the loop ends
\* only by an interrupt.
C15_FailureDoesNotStopOthers ==
  /\ (mon.pc = "sleep" /\ mon.iterations > 0 /\ mon.listed) =>
        mon.ran = mon.at_start
  /\ mon.pc = "stopped" => mon.interrupted

\* An iteration over two monitored configs went to sleep after the cycle of
\* the first one failed: the second was run all the same.
C15_Witness ==
  /\ mon.pc = "sleep"
  /\ mon.listed
  /\ mon.at_start = {1, 2}
  /\ 1 \in mon.failed
  /\ mon.ran = {1, 2}

\* C17: an iteration of monitor_loop runs no cycle for a config for which
\* stop_monitoring had succeeded, with no start_monitoring since, when the
\* iteration started; it runs exactly the configs monitored at its start;
\* and no two configs are for the same excel_file_id.
C17_StoppedStaysStopped ==
  /\ mon.pc \in {"run", "cycle"} =>
        /\ \A i \in mon.at_start : i \notin mon.stopped_at_start
        /\ {mon.todo[k] : k \in 1..Len(mon.todo)} \cup mon.ran = mon.at_start
  /\ \A i, k \in 1..Len(mon.configs) :
        mon.configs[i].excel_file_id = mon.configs[k].excel_file_id => i = k

\* C16: however the cycle of monitor_loop and the cycle of process_drive_now
\* are scheduled on a spreadsheet, with neither forced, they never both read
\* a completion flag as false and persist the same artifact: no
\* JobApplication has two GeneratedCoverLetter rows or two documents.
C16_NoDuplicateArtifacts ==
  \A j \in 1..Len(jobs) :
    /\ Cardinality({k \in 1..Len(genCovers) : genCovers[k].job = j}) <= 1
    /\ Cardinality({d \in 1..Len(docs) : docs[d].job = j}) <= 1

LastRowHandled ==
  /\ pc = "rows"
  /\ row_log # <<>>
  /\ row_log[Len(row_log)].outcome # "skipped"
  /\ row_log[Len(row_log)].id # 0

\* C19: a row whose job_description, after the backfill, is too short or
\* starts with an error marker was stopped before any Generation Adapter or
\* Document Adapter call, its JobApplication has status failed, and the row
\* was counted as an error.
C19_RejectedRowFailed ==
  (LastRowHandled
   /\ DescriptionRejected(jobs[row_log[Len(row_log)].id].job_description)) =>
    /\ ~row_log[Len(row_log)].asked.cover
    /\ ~row_log[Len(row_log)].asked.resume
    /\ ~row_log[Len(row_log)].asked.recs
    /\ ~row_log[Len(row_log)].asked.doc
    /\ row_log[Len(row_log)].outcome = "error"
    /\ jobs[row_log[Len(row_log)].id].status = "failed"

\* C20: in a call without force_reprocess, a row whose two completion cells
\* read yes and whose JobApplication had both flags true was skipped: counted
\* as skipped, with no generation call, no document call, no upload of the
\* sheet and no write to the store.
C20_DoneRowSkipped ==
  \A k \in 1..Len(row_log) :
    (~row_log[k].force /\ row_log[k].sheet_done /\ row_log[k].local_done) =>
      /\ row_log[k].outcome = "skipped"
      /\ ~row_log[k].asked.cover
      /\ ~row_log[k].asked.resume
      /\ ~row_log[k].asked.recs
      /\ ~row_log[k].asked.doc
      /\ ~row_log[k].wrote
      /\ ~row_log[k].mutated

\* The loop of a call without force_reprocess is at a row that has neither
\* the generate_resume nor the generate_cover_letter intent.
AtRowWithoutIntent ==
  /\ pc = "rows"
  /\ cursor <= Len(job_apps_data)
  /\ ~force_reprocess
  /\ ~job_apps_data[cursor].generate_resume
  /\ ~job_apps_data[cursor].generate_cover_letter

SingleAccepted ==
  /\ single.called
  /\ ~DescriptionRejected(jobs[1].job_description)

\* The resume path of lines 274-304 as the claims state its gate.
ResumePathGate ==
  /\ config.generate_new_resume /\ single.before.generate_resume
  /\ single.force \/ ~single.before.resume_generated

\* C22: for a job that passed the description check, a cover letter was
\* requested iff (always_generate_cover_letter or the job's intent) and
\* (forced or not yet generated); the resume path was entered iff
\* (config.generate_new_resume and the job's intent) and (forced or not yet
\* generated), with a new-resume call when the job's generate_new_resume is
\* set and a recommendations call otherwise when the config enables it; no
\* other generation call was made.
C22_GenerationGates ==
  SingleAccepted =>
    /\ single.asked.cover =
         ((config.always_generate_cover_letter
           \/ single.before.generate_cover_letter)
          /\ (single.force \/ ~single.before.cover_letter_generated))
    /\ single.asked.resume =
         (ResumePathGate /\ single.before.generate_new_resume)
    /\ single.asked.recs =
         (ResumePathGate /\ ~single.before.generate_new_resume
          /\ config.generate_recommendations)

\* The config toggle alone made the call request a cover letter for a job
\* without the intent.
C22_Witness ==
  /\ SingleAccepted
  /\ ~single.before.generate_cover_letter
  /\ config.always_generate_cover_letter
  /\ single.asked.cover
  /\ ~single.asked.resume
  /\ ~single.asked.recs

\* C23: when the call ended without an exception, the job's status is the
\* function of its two flags and its previous status: completed with both
\* flags, processing with one, the previous status with none.
C23_StatusFromFlags ==
  (single.called /\ single.asked.raised = "none") =>
    jobs[1].status =
      IF jobs[1].resume_generated /\ jobs[1].cover_letter_generated
        THEN "completed"
      ELSE IF jobs[1].resume_generated \/ jobs[1].cover_letter_generated
        THEN "processing"
      ELSE single.before.status

\* A failed job for which both generation calls were made and returned
\* nothing is still failed.
C23_Witness ==
  /\ SingleAccepted
  /\ single.success
  /\ single.before.status = "failed"
  /\ single.asked.cover
  /\ single.asked.resume
  /\ ~jobs[1].resume_generated
  /\ ~jobs[1].cover_letter_generated
  /\ jobs[1].status = "failed"

\* The job asks for a resume that is not generated yet, without a new
\* resume document (generate_new_resume false), and passed the description
\* check.
RecommendationsOnlyJob ==
  /\ SingleAccepted
  /\ single.before.generate_resume
  /\ ~single.before.generate_new_resume
  /\ ~single.before.resume_generated

C26_RowsOnlyForContent ==
  single.called =>
    /\ single.rows[1] > 0 => ResumePathGate
    /\ single.rows[2] > 0 => single.generated.cover

\* C25: a row that carries a job_description in the sheet and was handled
\* has that description on its JobApplication, and no extraction from the
\* job_url was attempted for it.
C25_SheetDescriptionCarried ==
  (LastRowHandled /\ job_apps_data[Len(row_log)].job_description # "") =>
    /\ row_log[Len(row_log)].row = job_apps_data[Len(row_log)].excel_row_index
    /\ jobs[row_log[Len(row_log)].id].job_description
         = job_apps_data[Len(row_log)].job_description
    /\ ~row_log[Len(row_log)].asked.scrape

\* The kinds of the runs of a body, top to bottom.
Kinds(body) == [i \in 1..Len(body) |-> body[i].kind]

\* C27: every document reads, top to bottom, cover letter section, page
\* break marker, resume section, with the texts of the last call.
C27_CoverThenBreakThenResume ==
  \A d \in 1..Len(docs) :
    /\ Kinds(docs[d].body) = <<"cover", "break", "resume">>
    /\ docs[d].body[1].text = docs[d].cover
    /\ docs[d].body[3].text = docs[d].resume

\* The data row (position in the sheet, from 1) the k-th dictionary of
\* read_excel_from_drive was read from: the k-th row that is not excluded.
SourceRow(s, k) ==
  CHOOSE i \in 1..Len(s) :
    /\ ~RowExcluded(s[i])
    /\ Cardinality({j \in 1..i : ~RowExcluded(s[j])}) = k

\* The last call of update_excel_in_drive was made with the excel_row_index
\* of the k-th dictionary read from the sheet as it was, and returned.
WroteToEntry(k) ==
  /\ wlog.called
  /\ ~wlog.raised
  /\ k \in 1..Len(read_excel_from_drive(wlog.before))
  /\ wlog.row_index = read_excel_from_drive(wlog.before)[k].excel_row_index

C30_NoBlankOverwrite ==
  [][/\ Len(sheet') = Len(sheet)
     /\ \A i \in 1..Len(sheet) :
          /\ CellText(sheet[i].recommendations) # ""
               => CellText(sheet'[i].recommendations) # ""
          /\ CellText(sheet[i].google_doc_url) # ""
               => CellText(sheet'[i].google_doc_url) # ""
     /\ jobs[1].excel_row_index = 0 => sheet' = sheet]_vars

\* A cycle that produced a cover letter and no recommendations wrote the
\* cover flag back and left the recommendations of an earlier cycle in
\* their cell.
C30_Witness ==
  /\ single.called
  /\ single.success
  /\ single.before.excel_row_index = 2
  /\ single.generated.cover
  /\ ~single.asked.resume
  /\ ~single.asked.recs
  /\ sheet[1].cover_letter_generated = "yes"
  /\ sheet[1].recommendations = "recs"

\* The documents, GeneratedResume rows and GeneratedCoverLetter rows of job j.
DocsOf(j) == {d \in 1..Len(docs) : docs[d].job = j}
ResumeRowsOf(j) == {k \in 1..Len(genResumes) : genResumes[k].job = j}
CoverRowsOf(j) == {k \in 1..Len(genCovers) : genCovers[k].job = j}

\* C28: with the loop interrupted inside a row and started again, a finished
\* cycle leaves every job as cycles that were never interrupted leave it: at
\* most one document, one GeneratedResume row and one GeneratedCoverLetter
\* row.
C28_RestartConverges ==
  (pc = "idle" /\ last_result.success) =>
    \A j \in 1..Len(jobs) :
      /\ Cardinality(DocsOf(j)) <= 1
      /\ Cardinality(ResumeRowsOf(j)) <= 1
      /\ Cardinality(CoverRowsOf(j)) <= 1

\* C31: a company_name that is not empty is never changed: no step changes
\* the company_name of a JobApplication that has one, and a JobApplication
\* created for a row whose company_name cell is filled leaves the step that
\* creates and processes it with that name.
C31_CompanyNameWriteOnce ==
  [][/\ \A j \in 1..Len(jobs) :
          jobs[j].company_name # "" =>
            /\ j <= Len(jobs')
            /\ jobs'[j].company_name = jobs[j].company_name
     /\ \A j \in (Len(jobs) + 1)..Len(jobs') :
          (pc = "rows" /\ job_apps_data[cursor].company_name # "") =>
            jobs'[j].company_name = job_apps_data[cursor].company_name]_vars

\* A later cycle processed the row of a job whose company_name was seeded
\* from the sheet in the cycle before, with a description and a URL from
\* which another name is extracted: the name is the seeded one.
C31_Witness ==
  /\ LastRowHandled
  /\ cycles = 2
  /\ row_log[Len(row_log)].before.company_name = "Old Co"
  /\ row_log[Len(row_log)].outcome = "processed"
  /\ jobs[row_log[Len(row_log)].id].job_description # ""
  /\ extract_company_name(jobs[row_log[Len(row_log)].id].job_description,
                          jobs[row_log[Len(row_log)].id].job_url) # "Old Co"
  /\ jobs[row_log[Len(row_log)].id].company_name = "Old Co"

\* C32: sync_excel_data returns one job per row; a row whose unique_id is
\* empty, "nan" or whitespace has a generated id, every other row its
\* unique_id without the surrounding whitespace; no returned id is blank,
\* and the cache the call built holds an entry under each returned id, for a
\* job with that id.
C32_UniqueIdAssigned ==
  sync.called =>
    /\ Len(sync.jobs) = Len(sync.excel_data)
    /\ \A k \in 1..Len(sync.jobs) :
         /\ sync.excel_data[k].unique_id \in {"", "nan", " "}
              => sync.jobs[k].unique_id \in FreshIds
         /\ sync.excel_data[k].unique_id \in {"ID1", " ID1 "}
              => sync.jobs[k].unique_id = "ID1"
         /\ sync.excel_data[k].unique_id = " nan "
              => sync.jobs[k].unique_id = "nan"
         /\ sync.jobs[k].unique_id \notin {"", " "}
         /\ \E en \in sync.cache :
              /\ en.key = sync.jobs[k].unique_id
              /\ en.job.unique_id = en.key

\* One call on a row without an id and a row with a padded id.
C32_Witness ==
  /\ sync.called
  /\ Len(sync.excel_data) = 2
  /\ sync.excel_data[1].unique_id = "nan"
  /\ sync.excel_data[2].unique_id = " ID1 "
  /\ sync.jobs[1].unique_id \in FreshIds
  /\ sync.jobs[2].unique_id = "ID1"
  /\ sync.stats.new = 1
  /\ sync.stats.unchanged = 1

\* C33: the document of a job for which a cover letter was generated (it
\* has a GeneratedCoverLetter row) has a cover-letter section that holds a
\* generated cover letter.
C33_CoverLetterKept ==
  \A d \in 1..Len(docs) :
    CoverRowsOf(docs[d].job) # {} =>
      \E i \in 1..Len(docs[d].body) :
        /\ docs[d].body[i].kind = "cover"
        /\ docs[d].body[i].text = "generated"

\* C34: after _process_single_job handled a row, normally or through its
\* exception handler, the row's JobApplication has status completed if and
\* only if both of its completion flags are true.
C34_CompletedIffBothFlags ==
  LastRowHandled =>
    (jobs[row_log[Len(row_log)].id].status = "completed"
     <=> (jobs[row_log[Len(row_log)].id].resume_generated
          /\ jobs[row_log[Len(row_log)].id].cover_letter_generated))

\* C36: when the scraper returned one of its failure messages for a job
\* whose additional_instructions are too short to be promoted, no generation
\* call was made and the job's job_description is not a failure message.
C36_FailureTextNotUsed ==
  (single.called /\ single.asked.scrape /\ single.scr \in ScrapeFailures
   /\ ~LongInstructions(single.before.additional_instructions)) =>
    /\ ~single.asked.cover
    /\ ~single.asked.resume
    /\ ~single.asked.recs
    /\ jobs[1].job_description \notin ScrapeFailures

\* C37: a job was left by an earlier cycle with a failure message of the
\* scraper as its job_description and without a long additional_instructions
\* text; the user has since pasted a description into the row's
\* additional_instructions.  The cycle that handles the row promotes the
\* paste into job_description and processes the job.
C37_PasteRecovers ==
  (LastRowHandled
   /\ row_log[Len(row_log)].before.job_description \in ScrapeFailures
   /\ ~LongInstructions(row_log[Len(row_log)].before.additional_instructions)
   /\ LongInstructions(job_apps_data[Len(row_log)].additional_instructions)) =>
    /\ jobs[row_log[Len(row_log)].id].job_description = "promoted"
    /\ row_log[Len(row_log)].outcome = "processed"

\* C38: every successful result of process_drive_excel has
\* processed + skipped + errors = total.
C38_CountsAddUp ==
  last_result.success =>
    last_result.processed + last_result.skipped + last_result.errors
      = last_result.total

\* A call over two rows that skipped one and processed or failed the other.
C38_Witness ==
  /\ last_result.success
  /\ last_result.total = 2
  /\ last_result.skipped = 1
  /\ last_result.processed + last_result.errors = 1

\* Calls of process_drive_excel over a sheet with rows, starting with no
\* UserResume, with an inactive one only, or with an active one, while resumes
\* are uploaded (the call can come between an upload's UPDATE and its INSERT,
\* when no resume is active).
InitNoResume ==
  /\ InitStore
  /\ InitCycle
  /\ InitOther
  /\ resumes \in {<<>>, <<[is_active |-> FALSE, content |-> "cv"]>>,
                  <<[is_active |-> TRUE, content |-> "cv"]>>}
  /\ config \in Configs
  /\ sheet \in Sheets

NextNoResume ==
  \/ \E force \in BOOLEAN, read_ok \in BOOLEAN : CycleStart(force, read_ok)
  \/ ProcessRow("good", TRUE, TRUE, "none")
  \/ CycleEnd
  \/ \E u \in Uploaders : UploadDeactivate(u) /\ NoUploadInFlight
  \/ \E u \in Uploaders : UploadInsert(u)
  \/ \E u \in Uploaders : UploadContent(u)

NoResumeSpec == InitNoResume /\ [][NextNoResume]_vars

\* C39: a call of process_drive_excel made while no UserResume is active
\* returns a failure and changes nothing: no JobApplication, generated text
\* or document is created or modified, no generation or document call is
\* made, the sheet is not written, and the config (its last_checked) is not
\* updated.
C39_NoResumeNoEffect ==
  [][(pc = "idle" /\ ActiveIds(resumes) = {} /\ cycles' # cycles) =>
       /\ pc' = "idle"
       /\ ~last_result'.success
       /\ UNCHANGED <<storeVars, sheet, config, resumes, wlog>>]_vars

\* A call returned the failure over a sheet with rows while JobApplications
\* of an earlier call exist and no resume is active.
C39_Witness ==
  /\ pc = "idle"
  /\ last_result = [success |-> FALSE, error |-> "No active resume found"]
  /\ ActiveIds(resumes) = {}
  /\ Len(sheet) >= 1
  /\ Len(jobs) >= 1
  /\ config.last_checked = 1

\* ------------------------------------------- the monitor loop, for ever
\* One-row sheets with every setting of the three intent cells.
IntentSheets ==
  { << SheetRow("u1", NaN, NaN, gr, gc, gn, "no", "no") >> :
      gr \in {"yes", "no"}, gc \in {"yes", "no"}, gn \in {"yes", "no"} }

InitLive ==
  /\ InitStore
  /\ InitCycle
  /\ InitOther
  /\ resumes = <<[is_active |-> TRUE, content |-> "cv"]>>
  /\ config \in AllConfigs
  /\ sheet \in IntentSheets

\* monitor_loop:409-425: time.sleep, and the next iteration of while True.
\* The call counter and last_checked are clocks that nothing in the loop
\* reads; they are folded back so that the loop runs for ever over finitely
\* many states.
MonitorSleep ==
  /\ pc = "idle"
  /\ cycles = MaxCycles
  /\ cycles' = 0
  /\ config' = [config EXCEPT !.last_checked = 0]
  /\ UNCHANGED <<resumes, storeVars, sheet, upc, pc, job_apps_data, cursor,
                 active_resume, force_reprocess, counts, last_result, row_log,
                 hist, otherVars>>

\* monitor_loop:416 calls process_drive_excel(config.id): force_reprocess is
\* False; every adapter call succeeds.
NextLive ==
  \/ CycleStart(FALSE, TRUE)
  \/ ProcessRow("good", TRUE, TRUE, "none")
  \/ CycleEnd
  \/ MonitorSleep

\* The loop keeps running: a call that can take its next step takes it, and
\* the loop that can start its next iteration starts it.
LiveSpec == InitLive /\ [][NextLive]_vars /\ WF_vars(NextLive)

\* C35: every JobApplication ingested from a row with at least one generation
\* intent eventually has status completed.
C35_IntentCompletes ==
  \A j \in 1..MaxRows :
    (j <= Len(jobs) /\ (jobs[j].generate_resume \/ jobs[j].generate_cover_letter))
      ~> (j <= Len(jobs) /\ jobs[j].status = "completed")

=============================================================================
